---- MODULE Spec2Model ----
(***************************************************************************)
(* gh-project-pilot (src/src/index.test.ts holds the CLI source): the      *)
(* publish / project-drafts orchestrator with its resume ledger, the       *)
(* backlog loader, and the simulate command.                               *)
(*                                                                         *)
(* Strings are sequences of one-character strings, so that substring       *)
(* matching, sorting and slugs are computed and not assumed.               *)
(***************************************************************************)
EXTENDS Integers, Sequences, FiniteSets, TLC

\* ------------------------------------------------------------------ bounds
MaxRows == 2
MaxLimit == 2
MaxItems == 4
MaxTitleLen == 2
MaxSortItems == 2
MaxLabels == 3
MaxLines == 2

\* ----------------------------------------------------------------- strings
Digits == <<"0", "1", "2", "3", "4", "5", "6", "7", "8", "9">>
Lowers == <<"a", "b", "c", "d", "e", "f", "g", "h", "i", "j", "k", "l", "m",
            "n", "o", "p", "q", "r", "s", "t", "u", "v", "w", "x", "y", "z">>
Uppers == <<"A", "B", "C", "D", "E", "F", "G", "H", "I", "J", "K", "L", "M",
            "N", "O", "P", "Q", "R", "S", "T", "U", "V", "W", "X", "Y", "Z">>

Range(s) == {s[i] : i \in DOMAIN s}

IndexOf(s, c) == CHOOSE i \in DOMAIN s : s[i] = c

\* String.prototype.includes: needle occurs in hay as a contiguous substring.
Includes(hay, needle) ==
    \E i \in 0..(Len(hay) - Len(needle)) :
        \A k \in 1..Len(needle) : hay[i + k] = needle[k]

\* String.prototype.endsWith
EndsWith(s, suffix) ==
    /\ Len(suffix) <= Len(s)
    /\ \A k \in 1..Len(suffix) : s[Len(s) - Len(suffix) + k] = suffix[k]

\* String.prototype.localeCompare under the root (en) collation: strings are
\* compared first by primary weights (punctuation < digits < letters, letters
\* without regard to case), and only when all primary weights agree by case
\* (lower before upper).
UpperSet == Range(Uppers)

IsUpper(c) == c \in UpperSet

ToLowerOf == [c \in UpperSet |-> Lowers[IndexOf(Uppers, c)]]

ToLower(c) == IF IsUpper(c) THEN ToLowerOf[c] ELSE c

PrimaryOrder == <<"_", "-", ".", "/">> \o Digits \o Lowers

PrimaryOf ==
    [c \in Range(PrimaryOrder) \cup UpperSet |->
        IndexOf(PrimaryOrder, IF c \in UpperSet THEN Lowers[IndexOf(Uppers, c)] ELSE c)]

TertiaryOf == [c \in Range(PrimaryOrder) \cup UpperSet |-> IF IsUpper(c) THEN 1 ELSE 0]

Min(S) == CHOOSE x \in S : \A y \in S : x <= y

\* Comparison of two strings at one collation level, by the weights w.
LevelCompare(a, b, w) ==
    LET n == IF Len(a) < Len(b) THEN Len(a) ELSE Len(b)
        diff == {i \in 1..n : w[a[i]] # w[b[i]]}
    IN  IF diff # {}
        THEN (IF w[a[Min(diff)]] < w[b[Min(diff)]] THEN -1 ELSE 1)
        ELSE IF Len(a) < Len(b) THEN -1
        ELSE IF Len(a) > Len(b) THEN 1
        ELSE 0

localeCompare(a, b) ==
    LET p == LevelCompare(a, b, PrimaryOf)
    IN  IF p # 0 THEN p ELSE LevelCompare(a, b, TertiaryOf)

\* UTF-16 code-unit order of the characters the model uses:
\* - . / 0-9 A-Z _ a-z
CodeUnitOrder == <<"-", ".", "/">> \o Digits \o Uppers \o <<"_">> \o Lowers

CodeUnitOf == [c \in Range(CodeUnitOrder) |-> IndexOf(CodeUnitOrder, c)]

\* Lexicographic comparison by code units (-1, 0, 1).
CodeUnitCompare(a, b) == LevelCompare(a, b, CodeUnitOf)

\* Array.prototype.sort((a, b) => a.localeCompare(b)) applied to a set of
\* distinct strings (the comparator is a total order on them).
RECURSIVE SortedByLocale(_)
SortedByLocale(S) ==
    IF S = {} THEN <<>>
    ELSE LET m == CHOOSE x \in S : \A y \in S : localeCompare(x, y) <= 0
         IN  <<m>> \o SortedByLocale(S \ {m})

\* path.join for the directories the model uses: "." and "" name the
\* working directory.
pathJoin(dir, name) == IF dir \in {<<>>, <<".">>} THEN name ELSE dir \o <<"/">> \o name

\* All sequences over S of length at most n.
SeqsUpTo(S, n) == UNION {[1..k -> S] : k \in 0..n}

\* ======================================================================
\* publish / project-drafts: inputs
\* ======================================================================
VARIABLES
    cmd,        \* "publish" or "project-drafts": the command whose runs are observed
    rows,       \* the records of summary.csv, as loadSummaryCsv returns them
    issueFiles, \* the paths listIssueFiles returns for --issues-dir
    stateFile,  \* the state file of cmd on disk
    startFile,  \* the state file as the current run found it
    pc,         \* position of the current run of cmd
    opts,       \* options of the current run
    toPublish,  \* candidates of the current run, in order
    idx,        \* index in toPublish of the candidate of the loop
    state,      \* state.created, the in-memory ledger of the run
    loaded,     \* result of tryLoadPublishState: did the state file parse
    console,    \* lines the run printed
    ghCalls,    \* invocations of the external create capability by the run
    created,    \* result of the last successful creation, not yet recorded
    error,      \* the error that ended the run, if any
    writes,     \* writes of the state file by the run
    other,      \* a second process running cmd on the same state file
    history,    \* observer: the successful creations of all runs so far, when kept
    raw,        \* loader: the parsed YAML document given to loadBacklog
    loadResult, \* loader: what loadBacklog returned or threw
    fs,         \* simulate: the files on disk, path -> content
    simResult,  \* simulate: how the last run ended, and what it printed
    simInvalid, \* simulate: the validations the inputs of the last run fail
    call,       \* functions: the function applied and its arguments
    result      \* functions: what the call returned or threw

ID_a == <<"a">>
ID_b == <<"b">>
ID_constructor == <<"c", "o", "n", "s", "t", "r", "u", "c", "t", "o", "r">>

RowIds == {ID_a, ID_b, ID_constructor}

\* Property names every plain object inherits from Object.prototype (among
\* them): state.created[id] is truthy for these whatever the ledger holds.
ObjectPrototypeKeys ==
    {ID_constructor,
     <<"t", "o", "S", "t", "r", "i", "n", "g">>,
     <<"v", "a", "l", "u", "e", "O", "f">>}

SummaryRow(id) == [id |-> id, title |-> "T1", labels |-> <<"status:backlog">>]

RowChoices ==
    {[i \in DOMAIN ids |-> SummaryRow(ids[i])] : ids \in SeqsUpTo(RowIds, MaxRows)}

DraftName(nn, id) == nn \o <<"-">> \o id \o <<"-", "x", ".", "m", "d">>

\* Contents of --issues-dir the runs are tried on: every draft present; the
\* draft of a present only under another extension and the others absent; a
\* directory whose own name holds -a- and that has no draft of a.
IssueDirChoices ==
    {[dir |-> <<"d">>,
      names |-> {DraftName(<<"0", "1">>, ID_a), DraftName(<<"0", "2">>, ID_b),
                 DraftName(<<"0", "3">>, ID_constructor)}],
     [dir |-> <<"d">>,
      names |-> {<<"0", "1", "-", "a", "-", "x", ".", "t", "x", "t">>,
                 DraftName(<<"0", "2">>, ID_b)}],
     [dir |-> <<"q", "-", "a", "-">>,
      names |-> {DraftName(<<"0", "2">>, ID_b)}]}

EmptyCreated == [k \in {} |-> 0]

Absent == [kind |-> "absent", created |-> EmptyCreated]
Corrupt == [kind |-> "corrupt", created |-> EmptyCreated]

\* The entry of an identifier in state.created.
Entry(c, title, labels, url) ==
    IF c = "publish"
    THEN [title |-> title, labels |-> labels, url |-> url]
    ELSE [title |-> title]

\* State files a first run may find: none, one that does not parse, and the
\* ledger of an earlier run that recorded a under another title.
StateFileChoices(c) ==
    {Absent, Corrupt,
     [kind |-> "ok", created |-> (ID_a :> Entry(c, "T0", <<>>, TRUE))]}

\* ======================================================================
\* publish / project-drafts: the code
\* ======================================================================
listIssueFiles(dir, names) ==
    LET sorted == SortedByLocale({n \in names : EndsWith(n, <<".", "m", "d">>)})
    IN  [i \in DOMAIN sorted |-> pathJoin(dir, sorted[i])]

\* `-${row.id}-`
Needle(id) == <<"-">> \o id \o <<"-">>

\* issueFiles.find((file) => file.includes(`-${row.id}-`)); 0 for undefined.
FindMatch(files, id) ==
    LET hits == {i \in DOMAIN files : Includes(files[i], Needle(id))}
    IN  IF hits = {} THEN 0 ELSE Min(hits)

\* The payload carries the path of the matched draft for the body read from it.
buildPublishPayloads(rs, files) ==
    LET missing == {i \in DOMAIN rs : FindMatch(files, rs[i].id) = 0}
    IN  IF missing # {}
        THEN [ok |-> FALSE, id |-> rs[Min(missing)].id, payloads |-> <<>>]
        ELSE [ok |-> TRUE, id |-> <<>>,
              payloads |-> [i \in DOMAIN rs |->
                  [id |-> rs[i].id, title |-> rs[i].title, labels |-> rs[i].labels,
                   body |-> files[FindMatch(files, rs[i].id)]]]]

\* limit 0 stands for an option not given.
applyLimit(items, limit) ==
    IF limit <= 0 THEN items
    ELSE SubSeq(items, 1, IF limit < Len(items) THEN limit ELSE Len(items))

tryLoadPublishState(file) ==
    IF file.kind = "ok"
    THEN [state |-> file.created, loaded |-> TRUE]
    ELSE [state |-> EmptyCreated, loaded |-> FALSE]

existsSync(file) == file.kind # "absent"

\* A variant that leaves the state file as it is: nothing is flushed.
savePublishState_NoFlush(file, st) == file

\* A variant that reads the file again and keeps the entries it finds there.
savePublishState_Merge(file, st) ==
    [kind |-> "ok", created |-> st @@ (IF file.kind = "ok" THEN file.created ELSE EmptyCreated)]

savePublishState(file, st) == [kind |-> "ok", created |-> st]

\* The truthiness of state.created[id]: an own entry, or a property the
\* object inherits.
HasCreated(st, id) == id \in DOMAIN st \/ id \in ObjectPrototypeKeys

ResumeFilter(selected, st, resume) ==
    IF resume THEN SelectSeq(selected, LAMBDA p : ~HasCreated(st, p.id)) ELSE selected

ResumeMessage(resume, file, isLoaded) ==
    IF resume /\ existsSync(file)
    THEN <<[kind |-> IF isLoaded THEN "resuming" ELSE "warning"]>>
    ELSE <<>>

DryRunLines(batch) == [i \in DOMAIN batch |-> [kind |-> "dry-run", payload |-> batch[i]]]

\* A variant in which a run with --no-resume does not read the state file and
\* starts from an empty ledger.
Prepare_NoResumeStartsEmpty(payloads, o, file) ==
    LET selected == applyLimit(payloads, o.limit)
        ld == IF o.resume THEN tryLoadPublishState(file)
              ELSE [state |-> EmptyCreated, loaded |-> FALSE]
    IN  [selected |-> selected, state |-> ld.state, loaded |-> ld.loaded,
         batch |-> ResumeFilter(selected, ld.state, o.resume),
         message |-> ResumeMessage(o.resume, file, ld.loaded)]

\* What the action computes, from the payloads on, before it prints or
\* creates anything.
Prepare(payloads, o, file) ==
    LET selected == applyLimit(payloads, o.limit)
        ld == tryLoadPublishState(file)
    IN  [selected |-> selected, state |-> ld.state, loaded |-> ld.loaded,
         batch |-> ResumeFilter(selected, ld.state, o.resume),
         message |-> ResumeMessage(o.resume, file, ld.loaded)]

\* Options of a run: every limit with and without --no-resume and --dry-run,
\* and --delay-ms in the runs without a limit that execute.
Options ==
    [limit : 0..MaxLimit, resume : BOOLEAN, dryRun : BOOLEAN, delayMs : {0}]
    \cup [limit : {0}, resume : BOOLEAN, dryRun : {FALSE}, delayMs : {250}]

NoError == [kind |-> "none", id |-> <<>>]

Idle == pc \in {"idle", "done", "failed", "killed"}

lvars == <<raw, loadResult>>
svars == <<fs, simResult, simInvalid>>
fvars == <<call, result>>
ovars == <<cmd, rows, issueFiles, lvars, svars, fvars, other>>
evars == <<ovars, history>>
pvars == <<cmd, rows, issueFiles, stateFile, startFile, pc, opts, toPublish, idx,
           state, loaded, console, ghCalls, created, error, writes, other, history>>

\* No record of the creations is kept across runs.
NoHistory == [on |-> FALSE, creations |-> [id \in RowIds |-> 0], unflushed |-> {}]

\* The record of an observer of the external service: how often the creation
\* of each identifier has succeeded, once or more than once, and the
\* identifiers whose creation was followed by a kill before the flush.
NewHistory == [NoHistory EXCEPT !.on = TRUE]

Succeeded(h, id) ==
    IF h.on
    THEN [h EXCEPT !.creations[id] = IF @ = 0 THEN 1 ELSE 2]
    ELSE h

KilledAt(h, position, id) ==
    IF h.on /\ position = "save" THEN [h EXCEPT !.unflushed = @ \cup {id}] ELSE h

\* The second process has not been started.
OtherIdle ==
    [pc |-> "idle", opts |-> [limit |-> 0, resume |-> TRUE, dryRun |-> FALSE, delayMs |-> 0],
     toPublish |-> <<>>, idx |-> 0, state |-> EmptyCreated, startFile |-> Absent,
     ghCalls |-> <<>>, created |-> FALSE]

PublishInit ==
    /\ cmd \in {"publish", "project-drafts"}
    /\ rows \in RowChoices
    /\ \E d \in IssueDirChoices : issueFiles = listIssueFiles(d.dir, d.names)
    /\ stateFile \in StateFileChoices(cmd)
    /\ startFile = stateFile
    /\ pc = "idle"
    /\ opts = [limit |-> 0, resume |-> TRUE, dryRun |-> FALSE, delayMs |-> 0]
    /\ toPublish = <<>>
    /\ idx = 0
    /\ state = EmptyCreated
    /\ loaded = FALSE
    /\ console = <<>>
    /\ ghCalls = <<>>
    /\ created = FALSE
    /\ error = NoError
    /\ writes = 0
    /\ other = OtherIdle
    /\ history = NoHistory

\* No run of publish or project-drafts is observed.
PublishIdle ==
    /\ cmd = "publish"
    /\ rows = <<>>
    /\ issueFiles = <<>>
    /\ stateFile = Absent
    /\ startFile = stateFile
    /\ pc = "idle"
    /\ opts = [limit |-> 0, resume |-> TRUE, dryRun |-> FALSE, delayMs |-> 0]
    /\ toPublish = <<>>
    /\ idx = 0
    /\ state = EmptyCreated
    /\ loaded = FALSE
    /\ console = <<>>
    /\ ghCalls = <<>>
    /\ created = FALSE
    /\ error = NoError
    /\ writes = 0
    /\ other = OtherIdle
    /\ history = NoHistory

\* buildPublishPayloads throws: the run ends before the state file is read.
StartMissing ==
    /\ Idle
    /\ \E built \in {buildPublishPayloads(rows, issueFiles)} : \E o \in Options :
            /\ ~built.ok
            /\ pc' = "failed"
            /\ error' = [kind |-> "missing-draft", id |-> built.id]
            /\ opts' = o
            /\ toPublish' = <<>>
            /\ idx' = 0
            /\ state' = EmptyCreated
            /\ loaded' = FALSE
            /\ console' = <<>>
            /\ ghCalls' = <<>>
            /\ created' = FALSE
            /\ writes' = 0
            /\ startFile' = stateFile
            /\ UNCHANGED <<evars, stateFile>>

\* A variant of the dry run that writes the ledger it loaded to the state file.
StartDryRun_Saves ==
    /\ Idle
    /\ \E built \in {buildPublishPayloads(rows, issueFiles)} : \E o \in Options :
        \E p \in {Prepare(built.payloads, o, stateFile)} :
            /\ built.ok
            /\ o.dryRun
            /\ pc' = "done"
            /\ error' = NoError
            /\ opts' = o
            /\ toPublish' = p.batch
            /\ idx' = 0
            /\ state' = p.state
            /\ loaded' = p.loaded
            /\ console' = p.message \o DryRunLines(p.batch)
            /\ ghCalls' = <<>>
            /\ created' = FALSE
            /\ writes' = 0
            /\ startFile' = stateFile
            /\ stateFile' = [kind |-> "ok", created |-> p.state]
            /\ UNCHANGED evars

\* --dry-run: the candidates are printed and the action returns.
StartDryRun ==
    /\ Idle
    /\ \E built \in {buildPublishPayloads(rows, issueFiles)} : \E o \in Options :
        \E p \in {Prepare(built.payloads, o, stateFile)} :
            /\ built.ok
            /\ o.dryRun
            /\ pc' = "done"
            /\ error' = NoError
            /\ opts' = o
            /\ toPublish' = p.batch
            /\ idx' = 0
            /\ state' = p.state
            /\ loaded' = p.loaded
            /\ console' = p.message \o DryRunLines(p.batch)
            /\ ghCalls' = <<>>
            /\ created' = FALSE
            /\ writes' = 0
            /\ startFile' = stateFile
            /\ UNCHANGED <<evars, stateFile>>

\* Execute mode, up to the first external call.
StartExecute ==
    /\ Idle
    /\ \E built \in {buildPublishPayloads(rows, issueFiles)} : \E o \in Options :
        \E p \in {Prepare(built.payloads, o, stateFile)} :
            /\ built.ok
            /\ ~o.dryRun
            /\ pc' = IF p.batch = <<>> THEN "done" ELSE "create"
            /\ error' = NoError
            /\ opts' = o
            /\ toPublish' = p.batch
            /\ idx' = 1
            /\ state' = p.state
            /\ loaded' = p.loaded
            /\ console' = p.message
            /\ ghCalls' = <<>>
            /\ created' = FALSE
            /\ writes' = 0
            /\ startFile' = stateFile
            /\ UNCHANGED <<evars, stateFile>>

\* The for loop moves to the next candidate, or ends.
NextPc(i, n) == IF i + 1 > n THEN "done" ELSE "create"

\* createGitHubIssue / createProjectDraft returns; gh printed an issue URL or not.
CreateOk ==
    /\ pc = "create"
    /\ \E url \in (IF cmd = "publish" THEN BOOLEAN ELSE {FALSE}) : created' = url
    /\ ghCalls' = Append(ghCalls, [id |-> toPublish[idx].id, ok |-> TRUE])
    /\ pc' = "save"
    /\ history' = Succeeded(history, toPublish[idx].id)
    /\ UNCHANGED <<ovars, stateFile, startFile, opts, toPublish, idx, state, loaded, console,
                   error, writes>>

\* A variant in which the failed candidate is recorded before the run ends.
CreateFails_Recorded ==
    /\ pc = "create"
    /\ ghCalls' = Append(ghCalls, [id |-> toPublish[idx].id, ok |-> FALSE])
    /\ pc' = "failed"
    /\ error' = [kind |-> "gh", id |-> toPublish[idx].id]
    /\ LET p == toPublish[idx]
           st == (p.id :> Entry(cmd, p.title, p.labels, FALSE)) @@ state
       IN  /\ state' = st
           /\ stateFile' = [kind |-> "ok", created |-> st]
    /\ writes' = writes + 1
    /\ UNCHANGED <<evars, startFile, opts, toPublish, idx, loaded, console, created>>

\* A variant in which the loop skips the failed candidate and continues.
CreateFails_Continue ==
    /\ pc = "create"
    /\ ghCalls' = Append(ghCalls, [id |-> toPublish[idx].id, ok |-> FALSE])
    /\ pc' = NextPc(idx, Len(toPublish))
    /\ idx' = idx + 1
    /\ UNCHANGED <<evars, stateFile, startFile, opts, toPublish, state, loaded, console,
                   created, error, writes>>

\* execFileSync throws: the exception leaves the loop and the action.
CreateFails ==
    /\ pc = "create"
    /\ ghCalls' = Append(ghCalls, [id |-> toPublish[idx].id, ok |-> FALSE])
    /\ pc' = "failed"
    /\ error' = [kind |-> "gh", id |-> toPublish[idx].id]
    /\ UNCHANGED <<evars, stateFile, startFile, opts, toPublish, idx, state, loaded, console,
                   created, writes>>

\* state.created[payload.id] = {...}; savePublishState(stateFile, state)
Save ==
    /\ pc = "save"
    /\ LET p == toPublish[idx]
           st == (p.id :> Entry(cmd, p.title, p.labels, created)) @@ state
       IN  /\ state' = st
           /\ stateFile' = savePublishState(stateFile, st)
    /\ writes' = writes + 1
    /\ created' = FALSE
    /\ IF opts.delayMs > 0
       THEN pc' = "sleep" /\ idx' = idx
       ELSE pc' = NextPc(idx, Len(toPublish)) /\ idx' = idx + 1
    /\ UNCHANGED <<evars, startFile, opts, toPublish, loaded, console, ghCalls, error>>

\* await sleep(options.delayMs) resolves.
Wake ==
    /\ pc = "sleep"
    /\ pc' = NextPc(idx, Len(toPublish))
    /\ idx' = idx + 1
    /\ UNCHANGED <<evars, stateFile, startFile, opts, toPublish, state, loaded, console,
                   ghCalls, created, error, writes>>

\* The process is killed from outside while the run is under way.
Kill ==
    /\ pc \in {"create", "save", "sleep"}
    /\ pc' = "killed"
    /\ history' = KilledAt(history, pc, toPublish[idx].id)
    /\ UNCHANGED <<ovars, stateFile, startFile, opts, toPublish, idx, state, loaded, console,
                   ghCalls, created, error, writes>>

PublishNext ==
    \/ StartMissing
    \/ StartDryRun
    \/ StartExecute
    \/ CreateOk
    \/ CreateFails
    \/ Save
    \/ Wake
    \/ Kill

\* ======================================================================
\* two processes on one state file
\* ======================================================================
\* Nothing in the action takes a lock or looks for another process: a second
\* process runs the same statements on the same files. Its steps, with its
\* own memory in other:
runvars == <<startFile, pc, opts, toPublish, idx, state, loaded, console, ghCalls, created,
             error, writes>>

\* The two processes are started on a summary of the rows a and b with all
\* drafts present, and a state file that is absent or records a.
RaceInit ==
    /\ cmd = "publish"
    /\ rows = <<SummaryRow(ID_a), SummaryRow(ID_b)>>
    /\ issueFiles = listIssueFiles(<<"d">>, {DraftName(<<"0", "1">>, ID_a),
                                             DraftName(<<"0", "2">>, ID_b)})
    /\ stateFile \in {Absent, [kind |-> "ok", created |-> (ID_a :> Entry(cmd, "T0", <<>>, TRUE))]}
    /\ startFile = stateFile
    /\ pc = "idle"
    /\ opts = [limit |-> 0, resume |-> TRUE, dryRun |-> FALSE, delayMs |-> 0]
    /\ toPublish = <<>>
    /\ idx = 0
    /\ state = EmptyCreated
    /\ loaded = FALSE
    /\ console = <<>>
    /\ ghCalls = <<>>
    /\ created = FALSE
    /\ error = NoError
    /\ writes = 0
    /\ other = OtherIdle
    /\ history = NoHistory

\* Options of the second process: execute mode without a delay.
OtherOptions == [limit : {0, 1}, resume : BOOLEAN, dryRun : {FALSE}, delayMs : {0}]

\* The second process, up to its first external call: it reads the state
\* file as it is at this moment.
OtherStart ==
    /\ other.pc = "idle"
    /\ \E built \in {buildPublishPayloads(rows, issueFiles)} : \E o \in OtherOptions :
        \E p \in {Prepare(built.payloads, o, stateFile)} :
            /\ built.ok
            /\ other' = [pc |-> IF p.batch = <<>> THEN "done" ELSE "create", opts |-> o,
                         toPublish |-> p.batch, idx |-> 1, state |-> p.state,
                         startFile |-> stateFile, ghCalls |-> <<>>, created |-> FALSE]
    /\ UNCHANGED <<cmd, rows, issueFiles, lvars, svars, fvars, stateFile, runvars, history>>

OtherCreateOk ==
    /\ other.pc = "create"
    /\ \E url \in BOOLEAN :
        other' = [other EXCEPT !.pc = "save", !.created = url,
                    !.ghCalls = Append(@, [id |-> other.toPublish[other.idx].id, ok |-> TRUE])]
    /\ UNCHANGED <<cmd, rows, issueFiles, lvars, svars, fvars, stateFile, runvars, history>>

OtherCreateFails ==
    /\ other.pc = "create"
    /\ other' = [other EXCEPT !.pc = "failed",
                    !.ghCalls = Append(@, [id |-> other.toPublish[other.idx].id, ok |-> FALSE])]
    /\ UNCHANGED <<cmd, rows, issueFiles, lvars, svars, fvars, stateFile, runvars, history>>

\* The second process records its creation and rewrites the whole state file
\* from its own memory.
OtherSave ==
    /\ other.pc = "save"
    /\ LET p == other.toPublish[other.idx]
           st == (p.id :> Entry(cmd, p.title, p.labels, other.created)) @@ other.state
       IN  /\ stateFile' = savePublishState(stateFile, st)
           /\ other' = [other EXCEPT !.state = st, !.created = FALSE,
                           !.pc = NextPc(other.idx, Len(other.toPublish)),
                           !.idx = other.idx + 1]
    /\ UNCHANGED <<cmd, rows, issueFiles, lvars, svars, fvars, runvars, history>>

\* The first process starts once.
RaceStart ==
    /\ pc = "idle"
    /\ StartExecute

RaceNext ==
    \/ RaceStart
    \/ CreateOk
    \/ CreateFails
    \/ Save
    \/ Wake
    \/ OtherStart
    \/ OtherCreateOk
    \/ OtherCreateFails
    \/ OtherSave

\* ======================================================================
\* successive runs with resume, observed
\* ======================================================================
\* Summaries with unique identifiers and all drafts present; the state file
\* absent, unreadable, or the ledger of an earlier run.
ResumeInit ==
    /\ cmd \in {"publish", "project-drafts"}
    /\ rows \in {<<SummaryRow(ID_a)>>, <<SummaryRow(ID_a), SummaryRow(ID_b)>>,
                 <<SummaryRow(ID_b), SummaryRow(ID_constructor), SummaryRow(ID_a)>>}
    /\ issueFiles = listIssueFiles(<<"d">>, {DraftName(<<"0", "1">>, ID_a),
                                             DraftName(<<"0", "2">>, ID_b),
                                             DraftName(<<"0", "3">>, ID_constructor)})
    /\ stateFile \in StateFileChoices(cmd)
    /\ startFile = stateFile
    /\ pc = "idle"
    /\ opts = [limit |-> 0, resume |-> TRUE, dryRun |-> FALSE, delayMs |-> 0]
    /\ toPublish = <<>>
    /\ idx = 0
    /\ state = EmptyCreated
    /\ loaded = FALSE
    /\ console = <<>>
    /\ ghCalls = <<>>
    /\ created = FALSE
    /\ error = NoError
    /\ writes = 0
    /\ other = OtherIdle
    /\ history = NewHistory

\* Every run is started with resume enabled.
ResumeDryRun == StartDryRun /\ opts'.resume

ResumeExecute == StartExecute /\ opts'.resume

ResumeNext ==
    \/ ResumeDryRun
    \/ ResumeExecute
    \/ CreateOk
    \/ CreateFails
    \/ Save
    \/ Wake
    \/ Kill

vars == <<pvars, lvars, svars, fvars>>

\* ======================================================================
\* backlog loader
\* ======================================================================
AlnumSet == Range(Digits) \cup Range(Lowers) \cup Range(Uppers)

\* /^[A-Za-z0-9][A-Za-z0-9._-]*$/
IdPattern(id) ==
    /\ Len(id) >= 1
    /\ id[1] \in AlnumSet
    /\ \A i \in 2..Len(id) : id[i] \in AlnumSet \cup {".", "_", "-"}

STR_backlog == <<"b", "a", "c", "k", "l", "o", "g">>

StatusEnum ==
    {STR_backlog, <<"s", "c", "a", "f", "f", "o", "l", "d", "e", "d">>, <<"m", "v", "p">>,
     <<"h", "a", "r", "d", "e", "n", "e", "d">>, <<"s", "h", "i", "p", "p", "e", "d">>}

\* A status that is not given: the schema's default applies.
NoStatus == <<>>

ItemFields == {"id", "title", "pitch", "status", "labels"}

\* BacklogItemSchema, field by field.
FieldOk(item, f) ==
    CASE f = "id" -> IdPattern(item.id)
      [] f = "title" -> Len(item.title) >= 1
      [] f = "pitch" -> Len(item.pitch) >= 1
      [] f = "status" -> item.status = NoStatus \/ item.status \in StatusEnum
      [] f = "labels" -> \A k \in DOMAIN item.labels : Len(item.labels[k]) >= 1

\* Paths of the issues BacklogItemSchema raises for item i.
ItemIssues(i, item) == {<<i, f>> : f \in {g \in ItemFields : ~FieldOk(item, g)}}

\* BacklogSchema.parse: every issue is collected; defaults are filled in.
BacklogSchemaParse(doc) ==
    LET issues ==
            UNION {ItemIssues(i, doc.items[i]) : i \in DOMAIN doc.items}
            \cup (IF Len(doc.project) >= 1 THEN {} ELSE {<<0, "project">>})
            \cup (IF Len(doc.items) >= 1 THEN {} ELSE {<<0, "items">>})
    IN  [ok |-> issues = {}, issues |-> issues,
         backlog |-> [project |-> doc.project,
                      items |-> [i \in DOMAIN doc.items |->
                          [id |-> doc.items[i].id, title |-> doc.items[i].title,
                           pitch |-> doc.items[i].pitch,
                           status |-> IF doc.items[i].status = NoStatus
                                      THEN STR_backlog ELSE doc.items[i].status,
                           labels |-> doc.items[i].labels]]]]

\* The identifiers the forEach finds already seen, sorted with localeCompare
\* for the message.
assertUniqueItemIds(backlog) ==
    LET items == backlog.items
        duplicates == {items[i].id : i \in
                         {j \in DOMAIN items : \E k \in 1..(j - 1) : items[k].id = items[j].id}}
    IN  [ok |-> duplicates = {}, list |-> SortedByLocale(duplicates)]

loadBacklog(doc) ==
    LET parsed == BacklogSchemaParse(doc)
        unique == assertUniqueItemIds(parsed.backlog)
    IN  IF ~parsed.ok
        THEN [kind |-> "schema-error", issues |-> parsed.issues, list |-> <<>>,
              backlog |-> parsed.backlog]
        ELSE IF ~unique.ok
        THEN [kind |-> "duplicate-error", issues |-> {}, list |-> unique.list,
              backlog |-> parsed.backlog]
        ELSE [kind |-> "ok", issues |-> {}, list |-> <<>>, backlog |-> parsed.backlog]

Item(id, title) ==
    [id |-> id, title |-> title, pitch |-> <<"p">>, status |-> NoStatus, labels |-> <<>>]

Doc(items) == [project |-> <<"P">>, items |-> items]

\* Identifiers the loader is tried on: lower and upper case, a digit, and one
\* that does not match the pattern.
LoadIds == {<<"a">>, <<"B">>, <<"b", "1">>, <<"-", "x">>}

LoadDocs ==
    {Doc([i \in DOMAIN ids |-> Item(ids[i], <<"T">>)]) : ids \in SeqsUpTo(LoadIds, MaxItems)}

NotLoaded == [kind |-> "none", issues |-> {}, list |-> <<>>, backlog |-> Doc(<<>>)]

LoadInit ==
    /\ raw \in LoadDocs
    /\ loadResult = NotLoaded

LoadIdle ==
    /\ raw = Doc(<<>>)
    /\ loadResult = NotLoaded

\* validate / simulate call loadBacklog on the document.
Load ==
    /\ loadResult.kind = "none"
    /\ loadResult' = loadBacklog(raw)
    /\ UNCHANGED <<raw, pvars, svars, fvars>>


\* ======================================================================
\* simulate
\* ======================================================================
IsSpace(c) == c \in {" ", "\n", "\t", "\r"}

\* String.prototype.trim
RECURSIVE TrimStart(_)
TrimStart(t) == IF t # <<>> /\ IsSpace(Head(t)) THEN TrimStart(Tail(t)) ELSE t

RECURSIVE TrimEnd(_)
TrimEnd(t) ==
    IF t # <<>> /\ IsSpace(t[Len(t)]) THEN TrimEnd(SubSeq(t, 1, Len(t) - 1)) ELSE t

Trim(t) == TrimEnd(TrimStart(t))

toLowerCase(t) == [i \in DOMAIN t |-> ToLower(t[i])]

STR_pretty == <<"p", "r", "e", "t", "t", "y">>
STR_json == <<"j", "s", "o", "n">>
STR_input == <<"i", "n", "p", "u", "t">>
STR_id == <<"i", "d">>
STR_paper == <<"p", "a", "p", "e", "r">>
STR_mono == <<"m", "o", "n", "o">>

normalizeOutputFormat(format) ==
    LET normalized == toLowerCase(Trim(format))
    IN  [ok |-> normalized \in {STR_pretty, STR_json}, value |-> normalized]

normalizeSortMode(mode) ==
    LET normalized == toLowerCase(Trim(mode))
    IN  [ok |-> normalized \in {STR_input, STR_id}, value |-> normalized]

\* An unknown theme falls back to paper with a warning.
normalizeTheme(theme) ==
    LET normalized == toLowerCase(theme)
    IN  IF normalized \notin {STR_paper, STR_mono}
        THEN [value |-> STR_paper, warned |-> TRUE]
        ELSE [value |-> normalized, warned |-> FALSE]

\* --generated-at not given.
Undefined == [given |-> FALSE, value |-> <<>>]

\* new Date().toISOString()
Now == <<"2", "0", "2", "6", "-", "1", "1", "-", "0", "5", "T", "0", "8", ":", "0", "0", ":", "0", "0", ".", "0", "0", "0", "Z">>

IsDigit(c) == c \in Range(Digits)

\* /^\d{4}-\d{2}-\d{2}T/
IsoPrefix(t) ==
    /\ Len(t) >= 11
    /\ \A i \in {1, 2, 3, 4, 6, 7, 9, 10} : IsDigit(t[i])
    /\ t[5] = "-" /\ t[8] = "-" /\ t[11] = "T"

normalizeGeneratedAt(opt) ==
    IF ~opt.given THEN [ok |-> TRUE, value |-> Now]
    ELSE LET trimmed == Trim(opt.value)
         IN  [ok |-> trimmed # <<>> /\ IsoPrefix(trimmed), value |-> trimmed]

\* [...backlog.items].sort((a, b) => a.id.localeCompare(b.id)): a stable sort.
RECURSIVE InsertById(_, _)
InsertById(x, sorted) ==
    IF sorted = <<>> THEN <<x>>
    ELSE IF localeCompare(x.id, Head(sorted).id) < 0 THEN <<x>> \o sorted
    ELSE <<Head(sorted)>> \o InsertById(x, Tail(sorted))

RECURSIVE SortById(_)
SortById(items) ==
    IF items = <<>> THEN <<>>
    ELSE InsertById(items[Len(items)], SortById(SubSeq(items, 1, Len(items) - 1)))

sortBacklog(backlog, mode) ==
    IF mode = STR_input THEN backlog
    ELSE [project |-> backlog.project, items |-> SortById(backlog.items)]

\* A template is the sequence of the {{placeholders}} of its text; the text
\* between them is carried by the position.
IssuePlaceholders ==
    <<"project", "id", "title", "pitch", "owner", "status", "tasks", "labels", "acceptance">>

PlanPlaceholders == <<"project", "generated_at", "items">>

DefaultTemplates ==
    [issue |-> <<"project", "id", "title", "owner", "status", "labels", "pitch", "tasks",
                 "acceptance">>,
     plan |-> <<"project", "generated_at", "items">>]

\* Templates given with --issue-template and --plan-template that leave
\* placeholders out.
CustomTemplates == [issue |-> <<"id", "title">>, plan |-> <<"project", "items">>]

\* template.replace(/\{\{(\w+)\}\}/g, (_match, key) => data[key] ?? "")
applyTemplate(template, data) ==
    [i \in DOMAIN template |->
        IF template[i] \in DOMAIN data THEN data[template[i]] ELSE <<>>]

assertTemplateHasPlaceholders(template, required) ==
    SelectSeq(required, LAMBDA key : key \notin Range(template))

\* The first template with a missing placeholder is the one reported.
validateTemplates(templates) ==
    LET issue == assertTemplateHasPlaceholders(templates.issue, IssuePlaceholders)
        plan == assertTemplateHasPlaceholders(templates.plan, PlanPlaceholders)
    IN  IF issue # <<>> THEN [ok |-> FALSE, name |-> "issue", missing |-> issue]
        ELSE IF plan # <<>> THEN [ok |-> FALSE, name |-> "plan", missing |-> plan]
        ELSE [ok |-> TRUE, name |-> "", missing |-> <<>>]

\* Array.prototype.join
RECURSIVE JoinWith(_, _)
JoinWith(parts, sep) ==
    IF parts = <<>> THEN <<>>
    ELSE IF Len(parts) = 1 THEN parts[1]
    ELSE parts[1] \o sep \o JoinWith(Tail(parts), sep)

RECURSIVE AddLabels(_, _)
AddLabels(normalized, labels) ==
    IF labels = <<>> THEN normalized
    ELSE LET trimmed == Trim(Head(labels))
         IN  AddLabels(IF trimmed = <<>> \/ trimmed \in Range(normalized)
                       THEN normalized ELSE Append(normalized, trimmed),
                       Tail(labels))

\* A variant of buildLabels that adds the status label after the declared ones.
buildLabels_StatusLast(status, rawLabels) ==
    AddLabels(<<>>, rawLabels \o <<<<"s", "t", "a", "t", "u", "s", ":">> \o status>>)

buildLabels(status, rawLabels) ==
    AddLabels(<<>>, <<<<"s", "t", "a", "t", "u", "s", ":">> \o status>> \o rawLabels)

DefaultTasks == <<"-", " ", "D", "e", "f", "i", "n", "e", " ", "t", "a", "s", "k", "s">>
DefaultAcceptance == <<"-", " ", "P", "l", "a", "n", " ", "e", "x", "i", "s", "t", "s", " ", "i", "n", " ", "/", "p", "l", "a", "n", "s", "\n", "-", " ", "D", "o", "c", "s", " ", "u", "p", "d", "a", "t", "e", "d", " ", "(", "P", "L", "A", "N", "/", "P", "R", "O", "J", "E", "C", "T", "/", "C", "H", "A", "N", "G", "E", "L", "O", "G", ")", "\n", "-", " ", "c", "h", "e", "c", "k", " ", "p", "a", "s", "s", "e", "s">>
DefaultRisks == <<"-", " ", "S", "c", "o", "p", "e", " ", "c", "r", "e", "e", "p", "\n", "-", " ", "M", "i", "s", "s", "i", "n", "g", " ", "t", "e", "s", "t", "s", "\n", "-", " ", "U", "n", "s", "a", "f", "e", " ", "d", "e", "f", "a", "u", "l", "t", "s">>
Unassigned == <<"u", "n", "a", "s", "s", "i", "g", "n", "e", "d">>

buildIssueDrafts(backlog, templates) ==
    [i \in DOMAIN backlog.items |->
        LET item == backlog.items[i]
            labels == buildLabels(item.status, item.labels)
        IN  [id |-> item.id, title |-> item.title, labels |-> labels,
             body |-> applyTemplate(templates.issue,
                 [project |-> backlog.project, id |-> item.id, title |-> item.title,
                  pitch |-> item.pitch, owner |-> Unassigned, status |-> item.status,
                  tasks |-> DefaultTasks, labels |-> JoinWith(labels, <<",", " ">>),
                  acceptance |-> DefaultAcceptance])]]

\* The numbered sections of the plan, one per item, in item order.
buildPlan(backlog, templates, generatedAt) ==
    applyTemplate(templates.plan,
        [project |-> backlog.project, generated_at |-> generatedAt,
         items |-> [i \in DOMAIN backlog.items |->
             [n |-> i, title |-> backlog.items[i].title, id |-> backlog.items[i].id,
              pitch |-> backlog.items[i].pitch, status |-> backlog.items[i].status,
              tasks |-> DefaultTasks, acceptance |-> DefaultAcceptance,
              risks |-> DefaultRisks]]])

\* toLowerCase, then /[^a-z0-9]+/g -> "-", then /(^-|-$)/g -> "".
RECURSIVE Hyphenate(_, _)
Hyphenate(t, inRun) ==
    IF t = <<>> THEN <<>>
    ELSE IF Head(t) \in Range(Lowers) \cup Range(Digits)
    THEN <<Head(t)>> \o Hyphenate(Tail(t), FALSE)
    ELSE (IF inRun THEN <<>> ELSE <<"-">>) \o Hyphenate(Tail(t), TRUE)

slugify(t) ==
    LET h == Hyphenate(toLowerCase(t), FALSE)
        h1 == IF h # <<>> /\ Head(h) = "-" THEN Tail(h) ELSE h
    IN  IF h1 # <<>> /\ h1[Len(h1)] = "-" THEN SubSeq(h1, 1, Len(h1) - 1) ELSE h1

\* String(index + 1).padStart(2, "0"), for fewer than 100 drafts.
PadStart2(n) ==
    IF n < 10 THEN <<"0", Digits[n + 1]>> ELSE <<Digits[(n \div 10) + 1], Digits[(n % 10) + 1]>>

\* index is 0-based, as in the forEach.
issueDraftFilename(index, issue) ==
    LET slug == slugify(issue.title)
        safeTitle == IF slug = <<>> THEN <<"i", "s", "s", "u", "e">> ELSE slug
    IN  PadStart2(index + 1) \o <<"-">> \o issue.id \o <<"-">> \o safeTitle \o <<".", "m", "d">>

\* value.replace(/"/g, "\"\"")
DoubleQuotes(value) ==
    JoinWith([i \in DOMAIN value |-> IF value[i] = "\"" THEN <<"\"", "\"">> ELSE <<value[i]>>],
             <<>>)

escapeCsv(value) ==
    IF \E i \in DOMAIN value : value[i] \in {",", "\"", "\n"}
    THEN <<"\"">> \o DoubleQuotes(value) \o <<"\"">>
    ELSE value

STR_header == <<"i", "d", ",", "t", "i", "t", "l", "e", ",", "l", "a", "b", "e", "l", "s">>

\* [csvHeader, ...csvRows].join("\n"), the text of summary.csv.
SummaryCsv(issues) ==
    JoinWith(<<STR_header>> \o
             [i \in DOMAIN issues |->
                 JoinWith(<<issues[i].id, escapeCsv(issues[i].title),
                            escapeCsv(JoinWith(issues[i].labels, <<";">>))>>, <<",">>)],
             <<"\n">>)

\* The files writeSummary writes under the report directory.
writeSummary(outDir, reportDir, issues) ==
    LET reportPath == pathJoin(outDir, reportDir)
    IN  (pathJoin(reportPath, <<"s", "u", "m", "m", "a", "r", "y", ".", "j", "s", "o", "n">>) :>
            [kind |-> "json",
             rows |-> [i \in DOMAIN issues |->
                 [id |-> issues[i].id, title |-> issues[i].title,
                  labels |-> JoinWith(issues[i].labels, <<";">>)]]])
        @@ (pathJoin(reportPath, <<"s", "u", "m", "m", "a", "r", "y", ".", "c", "s", "v">>) :>
            [kind |-> "csv", text |-> SummaryCsv(issues)])

writeHtmlReport(outDir, reportDir, plan, issues, theme) ==
    pathJoin(pathJoin(outDir, reportDir), <<"i", "n", "d", "e", "x", ".", "h", "t", "m", "l">>) :>
        [kind |-> "html", theme |-> theme, plan |-> plan, issues |-> issues]

\* The disk after writeOutputs: every file is written whole, over what was there.
writeOutputs(disk, outDir, plan, issues, reportDir, htmlReport, htmlTheme) ==
    LET planFile == pathJoin(outDir, <<"p", "l", "a", "n", ".", "m", "d">>) :> [kind |-> "plan", text |-> plan]
        issuesDir == pathJoin(outDir, <<"i", "s", "s", "u", "e", "s">>)
        names == {pathJoin(issuesDir, issueDraftFilename(i - 1, issues[i])) : i \in DOMAIN issues}
        \* a later draft with the same file name overwrites an earlier one
        last(name) == CHOOSE i \in DOMAIN issues :
            /\ pathJoin(issuesDir, issueDraftFilename(i - 1, issues[i])) = name
            /\ \A j \in DOMAIN issues :
                pathJoin(issuesDir, issueDraftFilename(j - 1, issues[j])) = name => j <= i
        drafts == [name \in names |->
            [kind |-> "issue", title |-> issues[last(name)].title,
             body |-> issues[last(name)].body, labels |-> issues[last(name)].labels]]
        html == IF htmlReport
                THEN writeHtmlReport(outDir, reportDir, plan, issues, htmlTheme)
                ELSE [k \in {} |-> 0]
    IN  html @@ writeSummary(outDir, reportDir, issues) @@ drafts @@ planFile @@ disk

\* The paths of the disk that lie under dir.
Under(disk, dir) ==
    {path \in DOMAIN disk :
        /\ Len(path) > Len(dir)
        /\ SubSeq(path, 1, Len(dir) + 1) = dir \o <<"/">>}

dirExists(disk, dir) == Under(disk, dir) # {}

\* cleanOutputDir: refuses the unsafe targets, else removes the directory.
cleanOutputDir(disk, outDir) ==
    LET normalized == Trim(outDir)
    IN  IF normalized \in {<<>>, <<".">>, <<"/">>, <<".", "/">>}
        THEN [ok |-> FALSE, disk |-> disk]
        ELSE IF ~dirExists(disk, normalized) THEN [ok |-> TRUE, disk |-> disk]
        ELSE [ok |-> TRUE,
              disk |-> [path \in (DOMAIN disk) \ Under(disk, normalized) |-> disk[path]]]

Ended(kind, err, o, warned, disk) ==
    [result |-> [kind |-> kind, error |-> err, out |-> o.out, clean |-> o.clean,
                 warned |-> warned],
     disk |-> disk]

\* A variant of simulate that cleans the output directory before it validates.
SimulateRun_CleanFirst(o, disk) ==
    LET format == normalizeOutputFormat(o.format)
        sortMode == normalizeSortMode(o.sort)
        loadedDoc == loadBacklog(o.input)
        ordered == sortBacklog(loadedDoc.backlog, sortMode.value)
        checked == validateTemplates(o.templates)
        issues == buildIssueDrafts(ordered, o.templates)
        generatedAt == normalizeGeneratedAt(o.generatedAt)
        plan == buildPlan(ordered, o.templates, generatedAt.value)
        theme == normalizeTheme(o.htmlTheme)
        cleaned == IF o.clean THEN cleanOutputDir(disk, o.out) ELSE [ok |-> TRUE, disk |-> disk]
    IN  IF ~cleaned.ok THEN Ended("error", "unsafe-clean", o, FALSE, disk)
        ELSE IF ~format.ok THEN Ended("error", "format", o, FALSE, cleaned.disk)
        ELSE IF ~sortMode.ok THEN Ended("error", "sort", o, FALSE, cleaned.disk)
        ELSE IF loadedDoc.kind # "ok" THEN Ended("error", loadedDoc.kind, o, FALSE, cleaned.disk)
        ELSE IF ~o.allowMissingPlaceholders /\ ~checked.ok
        THEN Ended("error", "template", o, FALSE, cleaned.disk)
        ELSE IF ~generatedAt.ok THEN Ended("error", "generated-at", o, FALSE, cleaned.disk)
        ELSE IF o.dryRun THEN Ended("dry-run", "", o, FALSE, cleaned.disk)
        ELSE Ended("ok", "", o, theme.warned,
                   writeOutputs(cleaned.disk, o.out, plan, issues, <<"r", "e", "p", "o", "r", "t">>, o.htmlReport,
                                theme.value))

\* The simulate action: the result it ends with and the disk it leaves.
SimulateRun(o, disk) ==
    LET format == normalizeOutputFormat(o.format)
        sortMode == normalizeSortMode(o.sort)
        loadedDoc == loadBacklog(o.input)
        ordered == sortBacklog(loadedDoc.backlog, sortMode.value)
        checked == validateTemplates(o.templates)
        issues == buildIssueDrafts(ordered, o.templates)
        generatedAt == normalizeGeneratedAt(o.generatedAt)
        plan == buildPlan(ordered, o.templates, generatedAt.value)
        theme == normalizeTheme(o.htmlTheme)
        cleaned == IF o.clean THEN cleanOutputDir(disk, o.out) ELSE [ok |-> TRUE, disk |-> disk]
    IN  IF ~format.ok THEN Ended("error", "format", o, FALSE, disk)
        ELSE IF ~sortMode.ok THEN Ended("error", "sort", o, FALSE, disk)
        ELSE IF loadedDoc.kind # "ok" THEN Ended("error", loadedDoc.kind, o, FALSE, disk)
        ELSE IF ~o.allowMissingPlaceholders /\ ~checked.ok
        THEN Ended("error", "template", o, FALSE, disk)
        ELSE IF ~generatedAt.ok THEN Ended("error", "generated-at", o, FALSE, disk)
        ELSE IF o.dryRun THEN Ended("dry-run", "", o, FALSE, disk)
        ELSE IF ~cleaned.ok THEN Ended("error", "unsafe-clean", o, theme.warned, disk)
        ELSE Ended("ok", "", o, theme.warned,
                   writeOutputs(cleaned.disk, o.out, plan, issues, <<"r", "e", "p", "o", "r", "t">>, o.htmlReport,
                                theme.value))

\* The validate action: it reads the backlog and the templates, prints one
\* line or fails, and calls nothing that touches a file.
ValidateRun(o, disk) ==
    LET format == normalizeOutputFormat(o.format)
        loadedDoc == loadBacklog(o.input)
        checked == validateTemplates(o.templates)
    IN  IF ~format.ok THEN Ended("error", "format", o, FALSE, disk)
        ELSE IF loadedDoc.kind # "ok" THEN Ended("error", loadedDoc.kind, o, FALSE, disk)
        ELSE IF ~o.allowMissingPlaceholders /\ ~checked.ok
        THEN Ended("error", "template", o, FALSE, disk)
        ELSE Ended("valid", "", o, FALSE, disk)

\* Items of the documents simulate is run on.
ITEM_a == Item(<<"a">>, <<"F", "i", "x", " ", "i", "t">>)
ITEM_b == Item(<<"b">>, <<"!", "!">>)

DOC_a == Doc(<<ITEM_a>>)
DOC_ba == Doc(<<ITEM_b, ITEM_a>>)

\* A run with valid inputs that writes into out with the default templates.
BaseOptions ==
    [input |-> DOC_a, out |-> <<"o", "u", "t">>, clean |-> FALSE, format |-> STR_pretty,
     generatedAt |-> Undefined, sort |-> STR_input, templates |-> DefaultTemplates,
     allowMissingPlaceholders |-> FALSE, htmlReport |-> TRUE, htmlTheme |-> STR_paper,
     dryRun |-> FALSE]

With(o, field, value) == [f \in DOMAIN o |-> IF f = field THEN value ELSE o[f]]

\* Valid runs: either backlog in either order, with and without --clean,
\* --dry-run and the HTML report (under an unknown theme).
ValidOptions ==
    {[[[[[BaseOptions EXCEPT !.input = d] EXCEPT !.sort = m] EXCEPT !.clean = c]
        EXCEPT !.dryRun = r] EXCEPT !.htmlReport = h, !.htmlTheme = <<"n", "e", "o", "n">>] :
        d \in {DOC_a, DOC_ba}, m \in {STR_input, <<"I", "D", " ">>}, c \in BOOLEAN, r \in BOOLEAN,
        h \in BOOLEAN}
    \cup {[[BaseOptions EXCEPT !.templates = CustomTemplates,
                               !.allowMissingPlaceholders = TRUE] EXCEPT !.clean = c] :
            c \in BOOLEAN}
    \cup {[[BaseOptions EXCEPT !.generatedAt =
                [given |-> TRUE, value |-> <<"2", "0", "2", "6", "-", "0", "2", "-", "0", "1", "T", "0", "0", ":", "0", "0", ":", "0", "0", "Z">>]] EXCEPT !.htmlTheme = t] :
            t \in {STR_paper, <<"M", "o", "n", "o">>}}
    \cup {[BaseOptions EXCEPT !.out = <<".">>, !.clean = TRUE]}

\* Runs with one input that fails a validation: the format, the sort mode, a
\* duplicate identifier, an identifier off the pattern, no item, a template
\* without its placeholders, a blank or malformed --generated-at.
InvalidOptions ==
    {[[o EXCEPT !.clean = c] EXCEPT !.dryRun = r] :
        c \in BOOLEAN, r \in BOOLEAN,
        o \in {With(BaseOptions, "format", <<"x", "m", "l">>),
               With(BaseOptions, "sort", <<"t", "i", "t", "l", "e">>),
               With(BaseOptions, "input", Doc(<<ITEM_a, ITEM_b, ITEM_a>>)),
               With(BaseOptions, "input", Doc(<<Item(<<"-", "x">>, <<"T">>)>>)),
               With(BaseOptions, "input", Doc(<<>>)),
               With(BaseOptions, "templates", CustomTemplates),
               With(BaseOptions, "generatedAt", [given |-> TRUE, value |-> <<" ">>]),
               With(BaseOptions, "generatedAt", [given |-> TRUE, value |-> <<"t", "o", "d", "a", "y">>])}}

SimOptions == ValidOptions \cup InvalidOptions

EmptyDisk == [k \in {} |-> 0]

NotRun == [kind |-> "none", error |-> "", out |-> <<>>, clean |-> FALSE, warned |-> FALSE]

\* The validations of simulate that the options o fail, whatever their order.
FailedValidations(o) ==
    {v \in {"format", "sort", "schema-error", "duplicate-error", "template", "generated-at"} :
        CASE v = "format" -> ~normalizeOutputFormat(o.format).ok
          [] v = "sort" -> ~normalizeSortMode(o.sort).ok
          [] v = "schema-error" -> ~BacklogSchemaParse(o.input).ok
          [] v = "duplicate-error" ->
                BacklogSchemaParse(o.input).ok /\ ~assertUniqueItemIds(o.input).ok
          [] v = "template" ->
                ~o.allowMissingPlaceholders /\ ~validateTemplates(o.templates).ok
          [] v = "generated-at" -> ~normalizeGeneratedAt(o.generatedAt).ok}

SimInit ==
    /\ fs = EmptyDisk
    /\ simResult = NotRun
    /\ simInvalid = {}

SimIdle ==
    /\ fs = EmptyDisk
    /\ simResult = NotRun
    /\ simInvalid = {}

Simulate ==
    \E o \in SimOptions : \E r \in {SimulateRun(o, fs)} :
        /\ fs' = r.disk
        /\ simResult' = r.result
        /\ simInvalid' = FailedValidations(o)
        /\ UNCHANGED <<pvars, lvars, fvars>>

\* Valid runs into one of two output directories, the name of the second
\* starting with a space: either backlog, with and without --clean and the
\* HTML report.
RerunOptions ==
    {[BaseOptions EXCEPT !.input = d, !.out = t, !.clean = c, !.htmlReport = h] :
        d \in {DOC_a, DOC_ba}, t \in {<<"o", "u", "t">>, <<" ", "o", "u", "t">>}, c \in BOOLEAN,
        h \in BOOLEAN}

\* simulate run again and again on the same disk.
SimulateAgain ==
    \E o \in RerunOptions : \E r \in {SimulateRun(o, fs)} :
        /\ fs' = r.disk
        /\ simResult' = r.result
        /\ simInvalid' = FailedValidations(o)
        /\ UNCHANGED <<pvars, lvars, fvars>>

\* ======================================================================
\* functions applied on their own
\* ======================================================================
NotCalled == [kind |-> "none"]

STR_out == <<"o", "u", "t">>

NoCall == [fn |-> "none"]

\* No function is applied on its own.
FnIdle ==
    /\ call = NoCall
    /\ result = NotCalled

\* A value JavaScript leaves undefined.
UndefinedValue == <<"undefined">>

\* String.prototype.split on a one-character separator.
RECURSIVE Split(_, _)
Split(t, sep) ==
    LET hits == {i \in DOMAIN t : t[i] = sep}
    IN  IF hits = {} THEN <<t>>
        ELSE <<SubSeq(t, 1, Min(hits) - 1)>> \o Split(SubSeq(t, Min(hits) + 1, Len(t)), sep)

\* The loop of parseCsv from index i on (1-based), with its four locals. The
\* iterations of the last branch (cell += char) are taken together up to the
\* next character one of the other branches can test for.
RECURSIVE ParseCsvFrom(_, _, _, _, _, _)
ParseCsvFrom(input, i, rs, current, cell, inQuotes) ==
    IF i > Len(input) THEN Append(rs, Append(current, cell))
    ELSE LET char == input[i]
             next == IF i < Len(input) THEN input[i + 1] ELSE "undefined"
             tested == IF inQuotes THEN {"\""} ELSE {"\"", ",", "\n", "\r"}
             stops == {j \in i..Len(input) : input[j] \in tested}
             stop == IF stops = {} THEN Len(input) + 1 ELSE Min(stops)
         IN  IF char = "\""
             THEN IF inQuotes /\ next = "\""
                  THEN ParseCsvFrom(input, i + 2, rs, current, Append(cell, "\""), inQuotes)
                  ELSE ParseCsvFrom(input, i + 1, rs, current, cell, ~inQuotes)
             ELSE IF char = "," /\ ~inQuotes
             THEN ParseCsvFrom(input, i + 1, rs, Append(current, cell), <<>>, inQuotes)
             ELSE IF char \in {"\n", "\r"} /\ ~inQuotes
             THEN ParseCsvFrom(input, IF char = "\r" /\ next = "\n" THEN i + 2 ELSE i + 1,
                               Append(rs, Append(current, cell)), <<>>, <<>>, inQuotes)
             ELSE ParseCsvFrom(input, stop, rs, current, cell \o SubSeq(input, i, stop - 1), inQuotes)

parseCsv(input) == ParseCsvFrom(input, 1, <<>>, <<>>, <<>>, FALSE)

\* The cell at position k of a parsed line, as array destructuring reads it.
CellAt(line, k) == IF k <= Len(line) THEN line[k] ELSE UndefinedValue

\* labels ? labels.split(";").filter(Boolean) : []
SplitLabels(labels) ==
    IF labels = UndefinedValue \/ labels = <<>> THEN <<>>
    ELSE SelectSeq(Split(labels, ";"), LAMBDA l : l # <<>>)

\* loadSummaryCsv on the text of the file.
loadSummaryCsv(text) ==
    LET trimmed == Trim(text)
        lines == parseCsv(trimmed)
        header == Head(lines)
    IN  IF trimmed = <<>> THEN [ok |-> TRUE, rows |-> <<>>]
        ELSE IF JoinWith(header, <<",">>) # STR_header THEN [ok |-> FALSE, rows |-> <<>>]
        ELSE [ok |-> TRUE,
              rows |-> [k \in DOMAIN Tail(lines) |->
                  [id |-> CellAt(lines[k + 1], 1), title |-> CellAt(lines[k + 1], 2),
                   labels |-> SplitLabels(CellAt(lines[k + 1], 3))]]]

Returned(value) == [kind |-> "returned", value |-> value]

ItemWith(id, title, labels) ==
    [id |-> id, title |-> title, pitch |-> <<"p">>, status |-> NoStatus, labels |-> labels]

\* Valid backlogs of one item, over the titles of the bound and a few declared
\* label lists, and of two items with the second fixed.
RoundTripCalls ==
    LET titles == SeqsUpTo({"a", ",", "\"", "\n", "\r", " "}, MaxTitleLen) \ {<<>>}
        labelLists == {<<>>, <<<<"x">>>>, <<<<"a", ";", "b">>>>, <<<<"a", ",", "b">>>>, <<<<" ", "y", " ">>, <<"x">>>>,
                       <<<<"x">>, <<"s", "t", "a", "t", "u", "s", ":", "b", "a", "c", "k", "l", "o", "g">>, <<"x">>>>}
    IN  {[fn |-> "round-trip", backlog |-> Doc(<<ItemWith(ID_a, t, ls)>>)] :
            t \in titles, ls \in labelLists}
        \cup {[fn |-> "round-trip", backlog |-> Doc(<<ItemWith(ID_a, t, <<>>), ITEM_b>>)] :
                t \in titles}

\* The drafts simulate builds from a document with the default templates.
DraftsOf(doc) == buildIssueDrafts(loadBacklog(doc).backlog, DefaultTemplates)

\* simulate writes summary.csv; publish reads it back with loadSummaryCsv.
RoundTrip ==
    /\ call.fn = "round-trip"
    /\ result = NotCalled
    /\ LET files == writeSummary(STR_out, <<"r", "e", "p", "o", "r", "t">>, DraftsOf(call.backlog))
           csv == files[pathJoin(pathJoin(STR_out, <<"r", "e", "p", "o", "r", "t">>), <<"s", "u", "m", "m", "a", "r", "y", ".", "c", "s", "v">>)]
       IN  \E text \in {csv.text} : result' = Returned(loadSummaryCsv(text))
    /\ UNCHANGED <<call, pvars, lvars, svars>>

\* Files loadSummaryCsv is tried on: a header row followed by data rows.
CsvCalls ==
    LET headers == {<<"i", "d", ",", "t", "i", "t", "l", "e", ",", "l", "a", "b", "e", "l", "s">>, <<"\"", "i", "d", "\"", ",", "\"", "t", "i", "t", "l", "e", "\"", ",", "\"", "l", "a", "b", "e", "l", "s", "\"">>, <<"\"", "i", "d", ",", "t", "i", "t", "l", "e", "\"", ",", "l", "a", "b", "e", "l", "s">>,
                    <<"i", "d", ",", "\"", "t", "i", "t", "l", "e", ",", "l", "a", "b", "e", "l", "s", "\"">>, <<"i", "d", ",", "t", "i", "t", "l", "e">>, <<"i", "d", ",", "t", "i", "t", "l", "e", ",", "l", "a", "b", "e", "l", "s", ",", "e", "x", "t", "r", "a">>,
                    <<"i", "d", ";", "t", "i", "t", "l", "e", ";", "l", "a", "b", "e", "l", "s">>, <<"I", "d", ",", "t", "i", "t", "l", "e", ",", "l", "a", "b", "e", "l", "s">>, <<>>, <<" ">>}
        bodies == {<<>>, <<"\n", "a", ",", "T", ",", "x">>, <<"\r", "\n", "a", ",", "\"", "T", ",", "1", "\"", ",", "x", ";", "y", "\n">>, <<"\n", "b">>}
    IN  {[fn |-> "loadSummaryCsv", text |-> h \o b] : h \in headers, b \in bodies}

ReadSummary ==
    /\ call.fn = "loadSummaryCsv"
    /\ result = NotCalled
    /\ result' = Returned(loadSummaryCsv(call.text))
    /\ UNCHANGED <<call, pvars, lvars, svars>>

\* Locales a process may run under. localeCompare without a locale argument
\* collates by the default locale of the process; the Estonian alphabet has
\* z before t, the English one after y.
Locales == {"en", "et"}

PrimaryOfIn ==
    [l \in Locales |->
        LET order == IF l = "et"
                     THEN <<"_", "-", ".", "/">> \o Digits \o SubSeq(Lowers, 1, 19) \o <<"z">>
                          \o SubSeq(Lowers, 20, 25)
                     ELSE PrimaryOrder
        IN  [c \in Range(PrimaryOrder) \cup UpperSet |-> IndexOf(order, ToLower(c))]]

localeCompareIn(locale, a, b) ==
    LET p == LevelCompare(a, b, PrimaryOfIn[locale])
    IN  IF p # 0 THEN p ELSE LevelCompare(a, b, TertiaryOf)

\* sortBacklog in a process of the given locale.
RECURSIVE SortByIdIn(_, _)
SortByIdIn(locale, items) ==
    IF items = <<>> THEN <<>>
    ELSE LET x == items[Len(items)]
             sorted == SortByIdIn(locale, SubSeq(items, 1, Len(items) - 1))
             before == {k \in DOMAIN sorted : localeCompareIn(locale, x.id, sorted[k].id) < 0}
             at == IF before = {} THEN Len(sorted) + 1 ELSE Min(before)
         IN  SubSeq(sorted, 1, at - 1) \o <<x>> \o SubSeq(sorted, at, Len(sorted))

sortBacklogIn(locale, backlog, mode) ==
    IF mode = STR_input THEN backlog
    ELSE [project |-> backlog.project, items |-> SortByIdIn(locale, backlog.items)]

\* Valid backlogs with pairwise distinct identifiers, in every order.
SortCalls ==
    LET ids == {<<"a">>, <<"B">>, <<"b", "1">>, <<"a", "-", "b">>, <<"a", "_", "b">>, <<"t">>, <<"z">>}
        seqs == {q \in SeqsUpTo(ids, MaxSortItems) :
                    q # <<>> /\ \A i, j \in DOMAIN q : i # j => q[i] # q[j]}
    IN  {[fn |-> "sortBacklog", mode |-> m,
          backlog |-> Doc([i \in DOMAIN q |-> Item(q[i], <<"T">>)])] :
            q \in seqs, m \in {STR_input, STR_id}}

\* simulate loads the backlog and sorts it; the loaded backlog is kept.
Sort ==
    /\ call.fn = "sortBacklog"
    /\ result = NotCalled
    /\ LET backlog == loadBacklog(call.backlog).backlog
       IN  result' = Returned([ordered |-> sortBacklog(backlog, call.mode),
                               backlog |-> backlog])
    /\ UNCHANGED <<call, pvars, lvars, svars>>

\* plan.md as simulate computes it from its options in a process of the locale.
PlanOfRun(locale, o) ==
    buildPlan(sortBacklogIn(locale, loadBacklog(o.input).backlog,
                            normalizeSortMode(o.sort).value),
              o.templates, normalizeGeneratedAt(o.generatedAt).value)

\* Two runs of simulate with the same valid options and an explicit
\* --generated-at, each in a process of its own.
PlanCalls ==
    LET ids == {<<"a">>, <<"t">>, <<"z">>}
        seqs == {q \in SeqsUpTo(ids, MaxSortItems) :
                    q # <<>> /\ \A i, j \in DOMAIN q : i # j => q[i] # q[j]}
        given == [given |-> TRUE, value |-> <<"2", "0", "2", "6", "-", "0", "2", "-", "0", "1", "T", "0", "0", ":", "0", "0", ":", "0", "0", "Z">>]
    IN  {[fn |-> "plan", first |-> l1, second |-> l2,
          o |-> [BaseOptions EXCEPT !.generatedAt = given, !.sort = m, !.templates = t,
                                    !.allowMissingPlaceholders = TRUE,
                                    !.input = Doc([i \in DOMAIN q |-> Item(q[i], <<"T">>)])]] :
            q \in seqs, m \in {STR_input, STR_id}, t \in {DefaultTemplates, CustomTemplates},
            l1 \in Locales, l2 \in Locales}

PlanTwice ==
    /\ call.fn = "plan"
    /\ result = NotCalled
    /\ result' = Returned(<<PlanOfRun(call.first, call.o), PlanOfRun(call.second, call.o)>>)
    /\ UNCHANGED <<call, pvars, lvars, svars>>

\* Statuses and declared label lists buildLabels is tried on.
LabelCalls ==
    LET labels == {<<"d", "o", "c", "s">>, <<"s", "t", "a", "t", "u", "s", ":", "b", "a", "c", "k", "l", "o", "g">>, <<" ", "d", "o", "c", "s">>, <<" ">>, <<"x">>}
    IN  {[fn |-> "buildLabels", status |-> st, rawLabels |-> ls] :
            st \in {STR_backlog, <<"m", "v", "p">>}, ls \in SeqsUpTo(labels, MaxLabels)}

Labels ==
    /\ call.fn = "buildLabels"
    /\ result = NotCalled
    /\ result' = Returned(buildLabels(call.status, call.rawLabels))
    /\ UNCHANGED <<call, pvars, lvars, svars>>

STR_owner == <<"O", "w", "n", "e", "r", ":">>

IsLineTerminator(c) == c \in {"\n", "\r"}

\* The capture of body.match(/^Owner:\s*(.+)\s*$/m): at the first line that
\* starts with Owner:, the white space after the colon is skipped, line ends
\* included, and the capture runs to the end of the line reached. <<>> when
\* nothing matches or only white space is captured.
OwnerCapture(body) ==
    LET starts == {p \in DOMAIN body :
                    /\ p = 1 \/ IsLineTerminator(body[p - 1])
                    /\ p + 5 <= Len(body)
                    /\ SubSeq(body, p, p + 5) = STR_owner}
        q == Min(starts) + 6
        rest == {i \in q..Len(body) : ~IsSpace(body[i])}
        from == Min(rest)
        ends == {i \in from..Len(body) : IsLineTerminator(body[i])}
        to == IF ends = {} THEN Len(body) ELSE Min(ends) - 1
    IN  IF starts = {} \/ rest = {} THEN <<>> ELSE SubSeq(body, from, to)

\* A variant of parseAssigneesFromIssueBody that leaves the leading @ in place.
parseAssigneesFromIssueBody_KeepAt(body) ==
    LET rawValue == Trim(OwnerCapture(body))
        values == SelectSeq([i \in DOMAIN Split(rawValue, ",") |-> Trim(Split(rawValue, ",")[i])],
                            LAMBDA v : v # <<>>)
    IN  IF rawValue = <<>> \/ toLowerCase(rawValue) = Unassigned THEN <<>> ELSE values

parseAssigneesFromIssueBody(body) ==
    LET rawValue == Trim(OwnerCapture(body))
        values == SelectSeq([i \in DOMAIN Split(rawValue, ",") |-> Trim(Split(rawValue, ",")[i])],
                            LAMBDA v : v # <<>>)
    IN  IF rawValue = <<>> \/ toLowerCase(rawValue) = Unassigned THEN <<>>
        ELSE [i \in DOMAIN values |->
                 IF Head(values[i]) = "@" THEN Tail(values[i]) ELSE values[i]]

\* The assignees of a payload: assigneeFromOwner ? parse(body) : undefined,
\* kept only when there is one.
payloadAssignees(assigneeFromOwner, body) ==
    IF assigneeFromOwner THEN parseAssigneesFromIssueBody(body) ELSE <<>>

\* Draft bodies of up to MaxLines lines, as buildPublishPayloads trims them;
\* among the lines an Owner: line of an item whose owner is the empty string
\* or a space, and the Status: line that follows it in the default template.
AssigneeCalls ==
    LET lines == {<<"O", "w", "n", "e", "r", ":", " ", "a", "l", "i", "c", "e", ",", " ", "@", "b", "o", "b">>, <<"O", "w", "n", "e", "r", ":", " ", "u", "n", "a", "s", "s", "i", "g", "n", "e", "d">>, <<"O", "w", "n", "e", "r", ":", "b", "o", "b", " ", ",", ",", " ", "@", "@", "c", " ">>,
                  <<"O", "w", "n", "e", "r", ":", " ", "@">>, <<"T", "i", "t", "l", "e", ":", " ", "x">>, <<"C", "o", "-", "O", "w", "n", "e", "r", ":", " ", "x">>, <<"O", "w", "n", "e", "r", ":", " ", "U", "n", "a", "s", "s", "i", "g", "n", "e", "d">>,
                  <<"O", "w", "n", "e", "r", ":">>, <<"O", "w", "n", "e", "r", ":", " ">>,
                  <<"S", "t", "a", "t", "u", "s", ":", " ", "b", "a", "c", "k", "l", "o", "g">>}
    IN  {[fn |-> "assignees", flag |-> f, body |-> Trim(JoinWith(ls, <<"\n">>))] :
            f \in BOOLEAN, ls \in SeqsUpTo(lines, MaxLines) \ {<<>>}}

Assignees ==
    /\ call.fn = "assignees"
    /\ result = NotCalled
    /\ result' = Returned(payloadAssignees(call.flag, call.body))
    /\ UNCHANGED <<call, pvars, lvars, svars>>

\* The commands whose action is an async function.
AsyncCommands == {"publish", "project-drafts"}

\* The top-level try/catch around program.parse. parse returns when the
\* action has returned; the promise of an async action is dropped, so that an
\* error thrown in it is a rejection no catch sees and Node reports it by its
\* --unhandled-rejections mode: with the error's stack, and exit status 1
\* (throw) or 0 (warn).
runCli(command, outcome, unhandledRejections) ==
    IF outcome = "ok" THEN [stderr |-> <<>>, exitCode |-> 0]
    ELSE IF outcome = "commander-error" THEN [stderr |-> <<"message">>, exitCode |-> 1]
    ELSE IF command \notin AsyncCommands THEN [stderr |-> <<"message">>, exitCode |-> 1]
    ELSE [stderr |-> <<"message", "stack">>,
          exitCode |-> IF unhandledRejections = "throw" THEN 1 ELSE 0]

CliCalls ==
    [fn : {"cli"}, command : {"simulate", "validate", "publish", "project-drafts"},
     outcome : {"ok", "commander-error", "action-error"},
     unhandledRejections : {"throw", "warn"}]

Cli ==
    /\ call.fn = "cli"
    /\ result = NotCalled
    /\ result' = Returned(runCli(call.command, call.outcome, call.unhandledRejections))
    /\ UNCHANGED <<call, pvars, lvars, svars>>

\* Templates with and without their required placeholders.
TemplateCalls ==
    LET issues == {DefaultTemplates.issue, CustomTemplates.issue,
                   SelectSeq(IssuePlaceholders, LAMBDA k : k # "pitch"), <<>>}
        plans == {DefaultTemplates.plan, CustomTemplates.plan, <<"project", "generated_at">>,
                  <<"items", "generated_at", "project", "items">>}
    IN  {[fn |-> "validateTemplates", allowMissingPlaceholders |-> a,
          templates |-> [issue |-> i, plan |-> p]] :
            a \in BOOLEAN, i \in issues, p \in plans}

\* if (!options.allowMissingPlaceholders) validateTemplates(templates)
CheckTemplates ==
    /\ call.fn = "validateTemplates"
    /\ result = NotCalled
    /\ result' = Returned(IF call.allowMissingPlaceholders
                          THEN [ok |-> TRUE, name |-> "", missing |-> <<>>]
                          ELSE validateTemplates(call.templates))
    /\ UNCHANGED <<call, pvars, lvars, svars>>

\* A disk that holds one file of an earlier run under dir.
StaleDisk(dir) == pathJoin(pathJoin(dir, <<"i", "s", "s", "u", "e", "s">>), <<"0", "9", "-", "z", "-", "o", "l", "d", ".", "m", "d">>) :> [kind |-> "stale"]

\* Runs of simulate on a disk of their own: valid backlogs written into a
\* fresh directory, with the default templates and with a plan template that
\* leaves {{items}} out; and runs with --clean on safe and unsafe targets, with
\* and without files of an earlier run.
SimulateCalls ==
    LET docs == {DOC_a, DOC_ba, Doc(<<ItemWith(ID_a, <<"a", "\r", "b">>, <<>>)>>),
                 Doc(<<ItemWith(ID_a, <<"a", ",", "b">>, <<<<"x">>>>), ItemWith(ID_b, <<"\"", "q", "\"", "\n">>, <<>>)>>)}
        noItems == [issue |-> DefaultTemplates.issue, plan |-> <<"project", "generated_at">>]
    IN  {[fn |-> "simulate", disk |-> EmptyDisk,
          o |-> [BaseOptions EXCEPT !.input = d, !.htmlReport = h]] :
            d \in docs, h \in BOOLEAN}
        \cup {[fn |-> "simulate", disk |-> EmptyDisk,
               o |-> [BaseOptions EXCEPT !.input = d, !.templates = noItems,
                                         !.allowMissingPlaceholders = TRUE]] : d \in docs}
        \cup {[fn |-> "simulate", disk |-> k,
               o |-> [BaseOptions EXCEPT !.clean = TRUE, !.out = t]] :
                t \in {<<>>, <<".">>, <<"/">>, <<".", "/">>, STR_out, <<" ", "o", "u", "t">>, <<"b">>},
                k \in {EmptyDisk, StaleDisk(STR_out), StaleDisk(<<" ", "o", "u", "t">>),
                       StaleDisk(STR_out) @@ StaleDisk(<<"b">>)}}
        \cup {[fn |-> "simulate", disk |-> k,
               o |-> [With(BaseOptions, "input", d) EXCEPT !.dryRun = TRUE, !.clean = c,
                                                           !.out = t]] :
                d \in {DOC_a, Doc(<<>>)}, c \in BOOLEAN, t \in {STR_out, <<".">>},
                k \in {EmptyDisk, StaleDisk(STR_out)}}

SimulateOnce ==
    /\ call.fn = "simulate"
    /\ result = NotCalled
    /\ result' = Returned(SimulateRun(call.o, call.disk))
    /\ UNCHANGED <<call, pvars, lvars, svars>>

\* Valid backlogs of one and two items with unique identifiers, one of them
\* with a hyphen, and titles of one and of three words, without a letter or
\* digit, and with a carriage return.
ResolveCalls ==
    LET ids == {ID_a, ID_b, <<"b", "-", "a">>}
        titles == {<<"T">>, <<"x", " ", "a", " ", "y">>, <<"!", "!">>, <<"a", "\r", "b">>}
    IN  {[fn |-> "resolve", backlog |-> Doc(<<Item(i, t)>>)] : i \in ids, t \in titles}
        \cup {[fn |-> "resolve", backlog |-> Doc(<<Item(q[1], t), Item(q[2], u)>>)] :
                q \in {r \in ids \X ids : r[1] # r[2]}, t \in titles, u \in titles}

\* simulate writes into a directory that does not exist; publish is pointed
\* at the summary.csv and the issues directory it finds there.
ResolveTargets(backlog) ==
    LET disk == SimulateRun(With(BaseOptions, "input", backlog), EmptyDisk).disk
        issuesDir == pathJoin(STR_out, <<"i", "s", "s", "u", "e", "s">>)
        names == {SubSeq(path, Len(issuesDir) + 2, Len(path)) : path \in Under(disk, issuesDir)}
        csv == disk[pathJoin(pathJoin(STR_out, <<"r", "e", "p", "o", "r", "t">>), <<"s", "u", "m", "m", "a", "r", "y", ".", "c", "s", "v">>)]
        read == loadSummaryCsv(csv.text)
    IN  [read |-> read, files |-> listIssueFiles(issuesDir, names),
         built |-> buildPublishPayloads(read.rows, listIssueFiles(issuesDir, names))]

Resolve ==
    /\ call.fn = "resolve"
    /\ result = NotCalled
    /\ result' = Returned(ResolveTargets(call.backlog))
    /\ UNCHANGED <<call, pvars, lvars, svars>>

\* Runs of validate on a disk with files of an earlier run: valid and invalid
\* inputs.
ValidateCalls ==
    {[fn |-> "validate", disk |-> StaleDisk(STR_out), o |-> o] :
        o \in {BaseOptions, With(BaseOptions, "input", DOC_ba),
               With(BaseOptions, "format", <<"x", "m", "l">>),
               With(BaseOptions, "input", Doc(<<ITEM_a, ITEM_a>>)),
               With(BaseOptions, "input", Doc(<<>>)),
               With(BaseOptions, "templates", CustomTemplates),
               [BaseOptions EXCEPT !.templates = CustomTemplates,
                                   !.allowMissingPlaceholders = TRUE]}}

ValidateOnce ==
    /\ call.fn = "validate"
    /\ result = NotCalled
    /\ result' = Returned(ValidateRun(call.o, call.disk))
    /\ UNCHANGED <<call, pvars, lvars, svars>>

FnInit ==
    /\ call \in RoundTripCalls \cup CsvCalls \cup SortCalls \cup PlanCalls \cup LabelCalls
                 \cup AssigneeCalls \cup CliCalls \cup TemplateCalls \cup SimulateCalls
                 \cup ValidateCalls \cup ResolveCalls
    /\ result = NotCalled

FnNext ==
    \/ RoundTrip
    \/ ReadSummary
    \/ Sort
    \/ PlanTwice
    \/ Labels
    \/ Assignees
    \/ Cli
    \/ CheckTemplates
    \/ SimulateOnce
    \/ ValidateOnce
    \/ Resolve


\* ======================================================================
\* specifications
\* ======================================================================
\* Runs of publish or project-drafts against one summary and one state file.
Init == PublishInit /\ LoadIdle /\ SimIdle /\ FnIdle

Next == PublishNext

Spec == Init /\ [][Next]_vars

\* loadBacklog on every document of the bounds.
InitLoad == PublishIdle /\ LoadInit /\ SimIdle /\ FnIdle

SpecLoad == InitLoad /\ [][Load]_vars

\* Runs of simulate on one disk.
InitSim == PublishIdle /\ LoadIdle /\ SimInit /\ FnIdle

SpecSim == InitSim /\ [][Simulate]_vars

\* Successive runs of simulate into the same output directories.
SpecRerun == InitSim /\ [][SimulateAgain]_vars

\* Two processes running publish on one state file, their steps interleaved.
InitRace == RaceInit /\ LoadIdle /\ SimIdle /\ FnIdle

SpecRace == InitRace /\ [][RaceNext]_vars

\* Successive runs of publish with resume on one state file, observed from
\* the side of the external service.
InitResume == ResumeInit /\ LoadIdle /\ SimIdle /\ FnIdle

SpecResume == InitResume /\ [][ResumeNext]_vars

\* One function of the program applied to one input of the bounds.
InitFn == PublishIdle /\ LoadIdle /\ SimIdle /\ FnInit

SpecFn == InitFn /\ [][FnNext]_vars


\* ======================================================================
\* publish / project-drafts: properties
\* ======================================================================
Keys(file) == DOMAIN file.created

OkCalls == SelectSeq(ghCalls, LAMBDA c : c.ok)

IdsOf(batch) == {batch[k].id : k \in DOMAIN batch}

DistinctIds(batch) ==
    \A j, k \in DOMAIN batch : j # k => batch[j].id # batch[k].id

\* The payloads and the selection of the current run, as the action computes them.
Payloads == buildPublishPayloads(rows, issueFiles).payloads

Selected == applyLimit(Payloads, opts.limit)

\* A run got past buildPublishPayloads and has not yet written the state
\* file: state is still what tryLoadPublishState returned.
AtStart == pc # "idle" /\ error.kind # "missing-draft" /\ writes = 0

GhFailed == pc = "failed" /\ error.kind = "gh"

\* C1: with resume enabled and a state file that parses, the candidates of a
\* run are exactly the selected rows whose identifier is not a key of the
\* ledger's created map: no recorded identifier is proposed or submitted, and
\* every selected row that is not recorded is.
C1_ResumeFiltering ==
    (AtStart /\ opts.resume /\ loaded) =>
        toPublish = SelectSeq(Selected, LAMBDA p : p.id \notin Keys(startFile))

\* The candidates a re-invocation of the run with resume enabled attempts.
Reinvocation == Prepare(Payloads, [opts EXCEPT !.resume = TRUE], stateFile).batch

\* What C2 states of a run that failed at candidate n + 1 of m.
LedgerReflectsSuccesses ==
    LET n == Len(ghCalls) - 1
        m == Len(toPublish)
        done == {toPublish[k].id : k \in 1..n}
    IN  /\ Keys(stateFile) = Keys(startFile) \cup done
        /\ \A k \in Keys(startFile) \ done : stateFile.created[k] = startFile.created[k]
        /\ toPublish[n + 1].id \notin Keys(stateFile)
        /\ Reinvocation = SubSeq(toPublish, n + 1, m)

\* C2 (as stated): when the external capability succeeds for the first N of M
\* candidates and fails for candidate N+1, the ledger on disk holds exactly
\* the entries of the start plus the N succeeded identifiers, not the failed
\* one, and a re-invocation with resume attempts exactly the other M-N.
C2_PartialFailure_Original == GhFailed => LedgerReflectsSuccesses

\* C2 (amended): the same, for a run with resume enabled whose candidates
\* have pairwise distinct identifiers.
C2_PartialFailure ==
    (GhFailed /\ opts.resume /\ DistinctIds(toPublish)) => LedgerReflectsSuccesses

C2_Witness ==
    /\ GhFailed
    /\ opts.resume
    /\ DistinctIds(toPublish)
    /\ Len(ghCalls) = 2
    /\ Len(toPublish) = 2
    /\ stateFile.kind = "ok"

\* C3: each successful creation is recorded and the whole ledger written to
\* the state file before the external capability is invoked again: the
\* creations of a run and its writes differ by at most the one in flight,
\* every creation before that one is on disk, and the file is the whole
\* in-memory ledger.
C3_IncrementalFlush ==
    /\ Len(OkCalls) - writes \in {0, 1}
    /\ pc = "create" => Len(OkCalls) = writes
    /\ \A k \in 1..writes : OkCalls[k].id \in Keys(stateFile)
    /\ writes > 0 => stateFile = [kind |-> "ok", created |-> state]

C3_Witness ==
    /\ pc = "save"
    /\ writes = 1
    /\ Len(OkCalls) = 2
    /\ OkCalls[1].id \in Keys(stateFile)
    /\ OkCalls[2].id \notin Keys(stateFile)

\* C4: a failure of the external capability ends the run: the failed call is
\* the last call of the run, and the ledger, in memory and on disk, holds
\* only what the start and the succeeded calls put there.
C4_FailureIsFatal ==
    \A k \in DOMAIN ghCalls :
        ~ghCalls[k].ok =>
            /\ k = Len(ghCalls)
            /\ pc = "failed"
            /\ error = [kind |-> "gh", id |-> ghCalls[k].id]
            /\ writes = k - 1
            /\ DOMAIN state = Keys(startFile) \cup {OkCalls[j].id : j \in DOMAIN OkCalls}
            /\ stateFile = IF writes = 0 THEN startFile
                           ELSE [kind |-> "ok", created |-> state]

C4_Witness ==
    /\ GhFailed
    /\ Len(ghCalls) = 1
    /\ Len(toPublish) = 2
    /\ ghCalls[1].id \notin Keys(stateFile)

\* What a dry run with options o prints when it finds the state file `file`.
DryRunOutput(o, file) ==
    LET p == Prepare(Payloads, o, file)
    IN  p.message \o DryRunLines(p.batch)

\* C5: a dry run never invokes the external capability and never writes the
\* state file, which stays as the run found it, so that a second dry run with
\* the same options would print what this one printed.
C5_DryRunNoEffects ==
    (pc # "idle" /\ opts.dryRun) =>
        /\ stateFile = startFile
        /\ ghCalls = <<>>
        /\ writes = 0
        /\ pc \in {"done", "failed"}
        /\ error.kind = "none" => console = DryRunOutput(opts, stateFile)

C5_Witness ==
    /\ opts.dryRun
    /\ pc = "done"
    /\ stateFile.kind = "ok"
    /\ toPublish # <<>>
    /\ Len(console) = 1 + Len(toPublish)

\* C6: with a limit N the candidates are the first N entries, in summary
\* order, of the batch that remains after resume filtering.
C6_LimitAfterFilter ==
    (AtStart /\ opts.limit > 0) =>
        toPublish = applyLimit(ResumeFilter(Payloads, startFile.created, opts.resume),
                               opts.limit)

\* C7: with resume enabled and a state file that is absent or does not parse,
\* the run proceeds with the full selection from an empty ledger and a
\* warning is printed.
C7_UnloadedStateWarns ==
    (AtStart /\ opts.resume /\ ~loaded) =>
        /\ toPublish = Selected
        /\ state = EmptyCreated
        /\ \E k \in DOMAIN console : console[k].kind = "warning"

\* The file name of a path: what follows its last separator.
BaseName(path) ==
    LET seps == {i \in DOMAIN path : path[i] = "/"}
        last == IF seps = {} THEN 0 ELSE CHOOSE i \in seps : \A j \in seps : j <= i
    IN  SubSeq(path, last + 1, Len(path))

\* Identifiers of the summary rows no draft file name holds as -id-.
RowsWithoutDraft ==
    {rows[i].id : i \in {j \in DOMAIN rows :
        \A f \in DOMAIN issueFiles : ~Includes(BaseName(issueFiles[f]), Needle(rows[j].id))}}

\* C8: when some summary row has no draft file whose name contains -id-, the
\* run fails with an error naming such an identifier before any external
\* creation and before the state file is written.
C8_MissingDraftIsFatal ==
    (pc # "idle" /\ RowsWithoutDraft # {}) =>
        /\ pc = "failed"
        /\ error.kind = "missing-draft"
        /\ error.id \in RowsWithoutDraft
        /\ ghCalls = <<>>
        /\ writes = 0

\* ======================================================================
\* loader and simulate: properties
\* ======================================================================
\* Identifiers that occur more than once in the document.
DuplicateIds(doc) ==
    {doc.items[i].id : i \in
        {j \in DOMAIN doc.items : \E k \in DOMAIN doc.items : k # j /\ doc.items[k].id = doc.items[j].id}}

\* The elements of S in increasing lexicographic (code unit) order.
RECURSIVE SortedByCodeUnit(_)
SortedByCodeUnit(S) ==
    IF S = {} THEN <<>>
    ELSE LET m == CHOOSE x \in S : \A y \in S : CodeUnitCompare(x, y) <= 0
         IN  <<m>> \o SortedByCodeUnit(S \ {m})

\* C9: a structurally valid backlog with a repeated identifier is rejected
\* with one error that lists every duplicated identifier once, sorted
\* lexicographically; one with pairwise distinct identifiers is accepted.
C9_DuplicatesRejected ==
    (loadResult.kind # "none" /\ BacklogSchemaParse(raw).ok) =>
        IF DuplicateIds(raw) = {}
        THEN loadResult.kind = "ok"
        ELSE /\ loadResult.kind = "duplicate-error"
             /\ loadResult.list = SortedByCodeUnit(DuplicateIds(raw))

\* C10: a simulate run whose inputs fail the schema validation, the duplicate
\* check, the placeholder check or the validation of an option ends with an
\* error and leaves every file as it was, with or without --clean.
C10_ValidationBeforeWrites ==
    [][simInvalid' # {} => (fs' = fs /\ simResult'.kind = "error")]_vars

C10_Witness ==
    /\ simInvalid # {}
    /\ simResult.kind = "error"
    /\ simResult.clean
    /\ simResult.out = STR_out
    /\ dirExists(fs, STR_out)

\* ======================================================================
\* functions applied on their own: properties
\* ======================================================================
\* The call has returned.
Called(fn) == call.fn = fn /\ result.kind = "returned"

\* A simulate run that wrote its outputs into a directory that held nothing.
WroteFresh ==
    /\ Called("simulate")
    /\ result.value.result.kind = "ok"
    /\ ~dirExists(call.disk, call.o.out)

\* The numbered sections of the plan.md under out: one for each element of
\* the value put in place of {{items}}.
PlanSections(o, disk) ==
    LET plan == disk[pathJoin(o.out, <<"p", "l", "a", "n", ".", "m", "d">>)].text
    IN  Cardinality(UNION {{<<i, k>> : k \in DOMAIN plan[i]} :
            i \in {j \in DOMAIN plan : o.templates.plan[j] = "items"}})

DraftFiles(o, disk) == Cardinality(Under(disk, pathJoin(o.out, <<"i", "s", "s", "u", "e", "s">>)))

ReportFile(o, disk, name) == disk[pathJoin(pathJoin(o.out, <<"r", "e", "p", "o", "r", "t">>), name)]

\* The rows of summary.csv after the header row, as publish reads them.
CsvDataRows(o, disk) == Len(loadSummaryCsv(ReportFile(o, disk, <<"s", "u", "m", "m", "a", "r", "y", ".", "c", "s", "v">>).text).rows)

JsonEntries(o, disk) == Len(ReportFile(o, disk, <<"s", "u", "m", "m", "a", "r", "y", ".", "j", "s", "o", "n">>).rows)

\* C11: a simulate run of a valid backlog with N items into a fresh output
\* directory produces N numbered plan sections, N draft files under issues/,
\* N data rows in summary.csv and N entries in summary.json.
C11_CountPreservation ==
    WroteFresh =>
        LET n == Len(call.o.input.items)
            disk == result.value.disk
        IN  /\ PlanSections(call.o, disk) = n
            /\ DraftFiles(call.o, disk) = n
            /\ CsvDataRows(call.o, disk) = n
            /\ JsonEntries(call.o, disk) = n

\* The counts that hold whatever the titles are: draft files and JSON entries.
C11_FilesAndJson ==
    WroteFresh =>
        /\ DraftFiles(call.o, result.value.disk) = Len(call.o.input.items)
        /\ JsonEntries(call.o, result.value.disk) = Len(call.o.input.items)

\* With the default templates the plan has its N sections.
C11_PlanSectionsDefault ==
    (WroteFresh /\ call.o.templates = DefaultTemplates) =>
        PlanSections(call.o, result.value.disk) = Len(call.o.input.items)

\* The id, title and label list of each draft, in order.
RowsOfDrafts(drafts) ==
    [i \in DOMAIN drafts |->
        [id |-> drafts[i].id, title |-> drafts[i].title, labels |-> drafts[i].labels]]

\* C12: for the drafts of a valid backlog, writing summary.csv with
\* writeSummary and reading it back with loadSummaryCsv yields, in the same
\* order, rows whose id, title and label list are those of the drafts.
C12_CsvRoundTrip ==
    Called("round-trip") =>
        /\ result.value.ok
        /\ result.value.rows = RowsOfDrafts(DraftsOf(call.backlog))

\* The round trip holds when no title has a carriage return and no label a
\* semicolon.
C12_RoundTripOfPlainValues ==
    (/\ Called("round-trip")
     /\ \A i \in DOMAIN call.backlog.items :
            /\ "\r" \notin Range(call.backlog.items[i].title)
            /\ \A l \in Range(call.backlog.items[i].labels) : ";" \notin Range(l))
    => (result.value.ok /\ result.value.rows = RowsOfDrafts(DraftsOf(call.backlog)))

\* C13: two simulate runs given the same backlog, the same templates, the
\* same sort mode and the same explicit --generated-at value produce the same
\* plan.md, whatever else differs between the two processes.
C13_Determinism ==
    Called("plan") => result.value[1] = result.value[2]

\* With sort mode input the plan does not depend on the process.
C13_InputOrderDeterminism ==
    (Called("plan") /\ normalizeSortMode(call.o.sort).value = STR_input) =>
        result.value[1] = result.value[2]

\* q holds the elements of p, each as often as p does.
IsPermutation(p, q) ==
    /\ Len(p) = Len(q)
    /\ \A x \in Range(p) \cup Range(q) :
        Cardinality({i \in DOMAIN p : p[i] = x}) = Cardinality({i \in DOMAIN q : q[i] = x})

\* C14: with sort mode id the list used for the outputs is a permutation of
\* the input items in non-decreasing lexicographic order of identifier; with
\* sort mode input it is the input order; the loaded backlog is left as it
\* was in both modes.
C14_Ordering ==
    Called("sortBacklog") =>
        LET loadedDoc == loadBacklog(call.backlog).backlog
            items == result.value.ordered.items
        IN  /\ result.value.backlog = loadedDoc
            /\ IsPermutation(loadedDoc.items, items)
            /\ IF call.mode = STR_id
               THEN \A i, j \in DOMAIN items :
                        i < j => CodeUnitCompare(items[i].id, items[j].id) <= 0
               ELSE items = loadedDoc.items

\* What holds of sort mode id: a permutation in non-decreasing order of the
\* collation localeCompare applies; and all of the claim for mode input.
C14_OrderingByCollation ==
    Called("sortBacklog") =>
        LET loadedDoc == loadBacklog(call.backlog).backlog
            items == result.value.ordered.items
        IN  /\ result.value.backlog = loadedDoc
            /\ IsPermutation(loadedDoc.items, items)
            /\ IF call.mode = STR_id
               THEN \A i, j \in DOMAIN items :
                        i < j => localeCompare(items[i].id, items[j].id) <= 0
               ELSE items = loadedDoc.items

StatusLabel(status) == <<"s", "t", "a", "t", "u", "s", ":">> \o status

\* The index of the first occurrence of x in q.
FirstIndex(q, x) == Min({i \in DOMAIN q : q[i] = x})

\* The labels of `declared` come in `resolved` in the order of their first
\* occurrence in `declared`, the status label apart.
KeepsFirstOccurrenceOrder(resolved, declared, status) ==
    \A x, y \in (Range(declared) \cap Range(resolved)) \ {StatusLabel(status)} :
        FirstIndex(declared, x) < FirstIndex(declared, y) =>
            FirstIndex(resolved, x) < FirstIndex(resolved, y)

NoLabelTwice(resolved) ==
    \A i, j \in DOMAIN resolved : i # j => resolved[i] # resolved[j]

\* C15 as stated: the resolved list starts with status:<status>, holds no
\* label twice, holds every declared label, and keeps the declared labels in
\* the order of their first occurrence.
C15_LabelResolution_Original ==
    Called("buildLabels") =>
        LET resolved == result.value
        IN  /\ resolved # <<>> /\ Head(resolved) = StatusLabel(call.status)
            /\ NoLabelTwice(resolved)
            /\ Range(call.rawLabels) \subseteq Range(resolved)
            /\ KeepsFirstOccurrenceOrder(resolved, call.rawLabels, call.status)

\* The declared labels as the resolution takes them: trimmed, the ones that
\* are white space only left out.
TrimmedLabels(rawLabels) ==
    SelectSeq([i \in DOMAIN rawLabels |-> Trim(rawLabels[i])], LAMBDA l : l # <<>>)

\* C15 (amended): the resolved list starts with status:<status>, holds no
\* label twice, holds every declared label trimmed of its surrounding white
\* space unless nothing is left of it, and keeps these trimmed labels in the
\* order of their first occurrence.
C15_LabelResolution ==
    Called("buildLabels") =>
        LET resolved == result.value
        IN  /\ resolved # <<>> /\ Head(resolved) = StatusLabel(call.status)
            /\ NoLabelTwice(resolved)
            /\ Range(TrimmedLabels(call.rawLabels)) \subseteq Range(resolved)
            /\ KeepsFirstOccurrenceOrder(resolved, TrimmedLabels(call.rawLabels), call.status)

\* A declared list with a padded label, a label equal to the status label
\* and a repeated label resolves to the status label and docs.
C15_Witness ==
    /\ Called("buildLabels")
    /\ call.status = STR_backlog
    /\ call.rawLabels = <<<<" ", "d", "o", "c", "s">>, <<"s", "t", "a", "t", "u", "s", ":", "b", "a", "c", "k", "l", "o", "g">>, <<"d", "o", "c", "s">>>>
    /\ result.value = <<<<"s", "t", "a", "t", "u", "s", ":", "b", "a", "c", "k", "l", "o", "g">>, <<"d", "o", "c", "s">>>>

UnsafeTargets == {<<>>, <<".">>, <<"/">>, <<".", "/">>}

\* The files of an earlier run that are still on the disk under dir.
StaleUnder(disk, dir) == {path \in Under(disk, dir) : disk[path].kind = "stale"}

\* C16: simulate --clean fails with an error, deleting nothing and writing
\* nothing, when the target path is empty, `.`, `/` or `./`; for any other
\* target the run leaves nothing of the target directory but its new
\* outputs.
C16_CleanGuard ==
    (Called("simulate") /\ call.o.clean) =>
        IF call.o.out \in UnsafeTargets
        THEN /\ result.value.result.kind = "error"
             /\ result.value.disk = call.disk
        ELSE /\ result.value.result.kind = "ok"
             /\ StaleUnder(result.value.disk, call.o.out) = {}

\* The guard holds of the runs with valid inputs and without --dry-run on
\* targets without surrounding white space, and the run then deletes nothing
\* outside the target directory.
C16_CleanGuardOfTrimmedTargets ==
    (/\ Called("simulate") /\ call.o.clean /\ Trim(call.o.out) = call.o.out
     /\ ~call.o.dryRun /\ FailedValidations(call.o) = {}) =>
        IF call.o.out \in UnsafeTargets
        THEN /\ result.value.result.kind = "error"
             /\ result.value.disk = call.disk
        ELSE /\ result.value.result.kind = "ok"
             /\ StaleUnder(result.value.disk, call.o.out) = {}
             /\ \A path \in (DOMAIN call.disk) \ Under(call.disk, call.o.out) :
                    path \in DOMAIN result.value.disk

StartsWith(t, prefix) == Len(t) >= Len(prefix) /\ SubSeq(t, 1, Len(prefix)) = prefix

\* The lines of the body that start with Owner:, by their position.
OwnerLines(body) == {i \in DOMAIN Split(body, "\n") : StartsWith(Split(body, "\n")[i], STR_owner)}

\* What follows Owner: on the first such line, trimmed.
FirstOwnerValue(body) ==
    LET line == Split(body, "\n")[Min(OwnerLines(body))]
    IN  Trim(SubSeq(line, Len(STR_owner) + 1, Len(line)))

\* The values between the commas, trimmed, the empty ones left out, each
\* without one leading @.
OwnerValues(value) ==
    LET parts == Split(value, ",")
        trimmed == SelectSeq([i \in DOMAIN parts |-> Trim(parts[i])], LAMBDA v : v # <<>>)
    IN  [i \in DOMAIN trimmed |->
            IF Head(trimmed[i]) = "@" THEN Tail(trimmed[i]) ELSE trimmed[i]]

HeaderRow(text) == Head(parseCsv(Trim(text)))

ExpectedHeader == <<<<"i", "d">>, <<"t", "i", "t", "l", "e">>, <<"l", "a", "b", "e", "l", "s">>>>

\* C18: loadSummaryCsv fails for every input that is not white space only
\* and whose header row is not the three columns id, title, labels, and it
\* returns no record and no error for an empty or white-space-only file.
C18_HeaderCheck ==
    Called("loadSummaryCsv") =>
        IF Trim(call.text) = <<>>
        THEN result.value.ok /\ result.value.rows = <<>>
        ELSE HeaderRow(call.text) # ExpectedHeader => ~result.value.ok

\* What the check does reject: every header row whose cells joined by commas
\* do not read id,title,labels.
C18_JoinedHeaderCheck ==
    Called("loadSummaryCsv") =>
        IF Trim(call.text) = <<>>
        THEN result.value.ok /\ result.value.rows = <<>>
        ELSE result.value.ok <=> JoinWith(HeaderRow(call.text), <<",">>) = STR_header

\* C19: every error raised by a command, an error thrown inside the async
\* action of publish or project-drafts included, ends with one message on
\* the error stream, no stack trace, and a non-zero exit status.
C19_ExitBehaviour ==
    (Called("cli") /\ call.outcome # "ok") =>
        /\ result.value.stderr = <<"message">>
        /\ result.value.exitCode # 0

\* It holds of the errors the synchronous parse throws: those of commander
\* and those of the actions of simulate and validate.
C19_SynchronousErrors ==
    (/\ Called("cli")
     /\ call.outcome = "commander-error" \/
            (call.outcome = "action-error" /\ call.command \notin AsyncCommands))
    => (result.value.stderr = <<"message">> /\ result.value.exitCode # 0)

\* The required placeholders the templates leave out, each with the name of
\* its template.
MissingPlaceholders(templates) ==
    {<<"issue", key>> : key \in Range(IssuePlaceholders) \ Range(templates.issue)}
    \cup {<<"plan", key>> : key \in Range(PlanPlaceholders) \ Range(templates.plan)}

\* The placeholders the error of the check names.
ListedPlaceholders(checked) == {<<checked.name, key>> : key \in Range(checked.missing)}

\* C20: without --allow-missing-placeholders, when a required placeholder is
\* absent from the issue template or from the plan template the check fails
\* with an error that lists every missing required placeholder; when none is
\* missing the check passes.
C20_PlaceholderPreCheck ==
    (Called("validateTemplates") /\ ~call.allowMissingPlaceholders) =>
        IF MissingPlaceholders(call.templates) = {} THEN result.value.ok
        ELSE /\ ~result.value.ok
             /\ ListedPlaceholders(result.value) = MissingPlaceholders(call.templates)

\* The check fails exactly when a placeholder is missing, and its error lists
\* the missing placeholders of the first template that lacks one: the issue
\* template before the plan template.
C20_FirstTemplateListed ==
    (Called("validateTemplates") /\ ~call.allowMissingPlaceholders) =>
        LET all == MissingPlaceholders(call.templates)
            first == IF \E m \in all : m[1] = "issue" THEN "issue" ELSE "plan"
        IN  IF all = {} THEN result.value.ok
            ELSE /\ ~result.value.ok
                 /\ ListedPlaceholders(result.value) = {m \in all : m[1] = first}

\* ======================================================================
\* successive runs of simulate: properties
\* ======================================================================
\* The files of the disk under dir.
FilesUnder(disk, dir) == [path \in Under(disk, dir) |-> disk[path]]

\* The last run used --clean and succeeded.
CleanRunSucceeded == simResult.kind = "ok" /\ simResult.clean

\* The output directory holds what one run with --clean writes into it when
\* the directory does not exist, and nothing else.
OnlyArtifactsOfOneRun(dir) ==
    \E o \in RerunOptions :
        /\ o.out = dir
        /\ o.clean
        /\ FilesUnder(fs, dir) = FilesUnder(SimulateRun(o, EmptyDisk).disk, dir)

\* C21: after any sequence of simulate runs into the same output directory,
\* if the last run used --clean and succeeded, the output directory holds
\* only the artifacts of that run.
C21_StaleOutputPrevention ==
    CleanRunSucceeded => OnlyArtifactsOfOneRun(simResult.out)

\* It holds of an output directory whose name has no surrounding white space.
C21_TrimmedTargets ==
    (CleanRunSucceeded /\ Trim(simResult.out) = simResult.out) =>
        OnlyArtifactsOfOneRun(simResult.out)

\* ======================================================================
\* read-only commands: properties
\* ======================================================================
\* A run of validate, or of simulate with --dry-run, has ended.
ReadOnlyRun ==
    \/ Called("validate")
    \/ Called("simulate") /\ call.o.dryRun

C23_InterPublishDelay ==
    pc = "sleep" =>
        /\ opts.delayMs > 0
        /\ stateFile.kind = "ok" /\ toPublish[idx].id \in Keys(stateFile)
        /\ idx < Len(toPublish)

\* A delay follows the flush of every creation, the last one included, and
\* there is none in a run that creates nothing.
C23_DelayAfterEveryFlush ==
    /\ pc = "sleep" =>
          /\ opts.delayMs > 0
          /\ stateFile.kind = "ok" /\ toPublish[idx].id \in Keys(stateFile)
          /\ OkCalls # <<>>
    /\ [][(pc = "save" /\ pc' # "killed" /\ opts.delayMs > 0) => pc' = "sleep"]_vars

\* ======================================================================
\* two processes on one state file: properties
\* ======================================================================
LedgerKeys(file) == IF file.kind = "ok" THEN DOMAIN file.created ELSE {}

OkIds(calls) == {calls[i].id : i \in {j \in DOMAIN calls : calls[j].ok}}

\* C24: there is no lock on the ledger. A process reads the state file once,
\* at its start, and every flush rewrites the whole file from the memory of
\* the flushing process: what that process found at its start and what it
\* has created itself, whatever the other process flushed in between. (The
\* states of the race of the claim are those of C24_Witness.)
C24_NoLocking ==
    [][stateFile' # stateFile =>
          LedgerKeys(stateFile') =
              IF other' # other
              THEN LedgerKeys(other'.startFile) \cup OkIds(other'.ghCalls)
              ELSE LedgerKeys(startFile') \cup OkIds(ghCalls')]_vars

\* Both processes have ended: a was created by both, and b, created and
\* flushed by one of them, is not in the state file.
C24_Witness ==
    /\ pc = "done" /\ other.pc = "done"
    /\ ID_a \in OkIds(ghCalls) \cap OkIds(other.ghCalls)
    /\ ID_b \in OkIds(ghCalls) \cup OkIds(other.ghCalls)
    /\ ID_b \notin LedgerKeys(stateFile)

\* ======================================================================
\* assignees of the Owner: line: properties
\* ======================================================================
\* C25: the assignees come only from the value on the first Owner: line
\* itself: every assignee is one of the comma-separated values of that line,
\* and a line with an empty or white-space value gives no assignee, whatever
\* the lines after it say.
C25_AssigneesOfOwnerLine ==
    (Called("assignees") /\ call.flag /\ OwnerLines(call.body) # {}) =>
        LET value == FirstOwnerValue(call.body)
        IN  /\ value = <<>> => result.value = <<>>
            /\ Range(result.value) \subseteq Range(OwnerValues(value))

\* It holds of the bodies whose first Owner: line has a value, and of those
\* in which nothing but white space follows the empty value.
C25_OwnerLineWithValue ==
    (Called("assignees") /\ call.flag /\ OwnerLines(call.body) # {}) =>
        LET value == FirstOwnerValue(call.body)
            lines == Split(call.body, "\n")
            after == {i \in DOMAIN lines : i > Min(OwnerLines(call.body)) /\ Trim(lines[i]) # <<>>}
        IN  (value # <<>> \/ after = {}) =>
                Range(result.value) \subseteq Range(OwnerValues(value))

\* ======================================================================
\* publish on the output of simulate: properties
\* ======================================================================
\* The path of the draft simulate wrote for the item with this identifier.
DraftPathOf(backlog, id) ==
    LET drafts == DraftsOf(backlog)
        k == CHOOSE i \in DOMAIN drafts : drafts[i].id = id
    IN  pathJoin(pathJoin(STR_out, <<"i", "s", "s", "u", "e", "s">>),
                 issueDraftFilename(k - 1, drafts[k]))

\* C26: on what simulate writes into a fresh directory from a valid backlog,
\* the resolution of publish pairs every row of the summary with the draft
\* written for the item of that row, never with the draft of another item.
C26_DraftResolution ==
    Called("resolve") =>
        /\ result.value.built.ok
        /\ \A i \in DOMAIN result.value.built.payloads :
              result.value.built.payloads[i].body =
                  DraftPathOf(call.backlog, result.value.built.payloads[i].id)

\* Every row is paired with its own draft when no draft written before it has
\* a name that holds the row's identifier between two hyphens (and the
\* summary is read back as written: no title has a carriage return).
C26_ResolutionOfDistinctNeedles ==
    (/\ Called("resolve")
     /\ \A k \in DOMAIN call.backlog.items : "\r" \notin Range(call.backlog.items[k].title)) =>
        /\ result.value.built.ok
        /\ \A i \in DOMAIN result.value.built.payloads :
              LET p == result.value.built.payloads[i]
                  own == DraftPathOf(call.backlog, p.id)
              IN  (\A j \in DOMAIN result.value.files :
                        (Includes(result.value.files[j], Needle(p.id))
                         /\ result.value.files[j] # own) =>
                            \E k \in 1..(j - 1) : result.value.files[k] = own)
                  => p.body = own

\* ======================================================================
\* repeated runs under a limit: properties
\* ======================================================================
\* The rows whose identifier the state file does not record.
Unrecorded(file) == {i \in DOMAIN rows : rows[i].id \notin LedgerKeys(file)}

UniqueRowIds == \A i, j \in DOMAIN rows : i # j => rows[i].id # rows[j].id

\* A run in execute mode with resume and a positive limit has ended, all its
\* creations having succeeded.
EndedUnderLimit ==
    /\ pc = "done"
    /\ ~opts.dryRun /\ opts.resume /\ opts.limit > 0
    /\ UniqueRowIds

\* C27: with resume and a positive limit, every invocation that starts with
\* unrecorded rows and whose creations all succeed records at least one new
\* identifier (so that repeated invocations end with every row recorded).
C27_ProgressUnderLimit ==
    (EndedUnderLimit /\ Unrecorded(startFile) # {}) =>
        LedgerKeys(stateFile) \ LedgerKeys(startFile) # {}

\* An invocation records a new identifier when one of the first N rows has
\* no truthy entry in the ledger it loads; when all of them have one, it
\* leaves the state file as it found it.
C27_ProgressAmongFirstRows ==
    EndedUnderLimit =>
        LET first == {i \in DOMAIN rows : i <= opts.limit}
            open == {i \in first : ~HasCreated(tryLoadPublishState(startFile).state, rows[i].id)}
        IN  IF open # {}
            THEN LedgerKeys(stateFile) \ LedgerKeys(startFile) # {}
            ELSE stateFile = startFile

\* ======================================================================
\* successive runs with resume: properties
\* ======================================================================
\* C28: over any sequence of runs with resume on one state file, for a
\* summary with unique identifiers, the external creation of an identifier
\* succeeds at most once, unless the process was killed between that creation
\* and its flush; creations that fail do not make a later run create again
\* what was created.
C28_AtMostOnceCreation ==
    history.on =>
        \A id \in RowIds : history.creations[id] <= 1 \/ id \in history.unflushed

\* A first run created a and failed on b; the run after it has created b
\* alone and ended: each was created once.
C28_Witness ==
    /\ history.on
    /\ pc = "done"
    /\ rows = <<SummaryRow(ID_a), SummaryRow(ID_b)>>
    /\ startFile.kind = "ok" /\ ID_b \notin LedgerKeys(startFile)
    /\ ghCalls = <<[id |-> ID_b, ok |-> TRUE]>>
    /\ history.creations[ID_a] = 1 /\ history.creations[ID_b] = 1
    /\ history.unflushed = {}

\* ======================================================================
\* the ledger over a run: properties
\* ======================================================================
\* The identifiers whose creation has succeeded in the current run.
CreatedInRun == OkIds(ghCalls)

C29_WrittenFilesParse ==
    writes > 0 => tryLoadPublishState(stateFile).loaded

WrittenDraftNames ==
    LET issuesDir == pathJoin(STR_out, <<"i", "s", "s", "u", "e", "s">>)
    IN  {SubSeq(path, Len(issuesDir) + 2, Len(path)) : path \in Range(result.value.files)}

\* name is {k padded to two digits}-{id}-{slug}.md with a slug that is not
\* empty.
HasDraftForm(name, k, id) ==
    LET prefix == PadStart2(k) \o <<"-">> \o id \o <<"-">>
    IN  /\ StartsWith(name, prefix)
        /\ EndsWith(name, <<".", "m", "d">>)
        /\ Len(name) > Len(prefix) + 3

FilenameForm ==
    LET items == call.backlog.items
    IN  /\ Cardinality(WrittenDraftNames) = Len(items)
        /\ \A name \in WrittenDraftNames :
              \A i \in DOMAIN name : name[i] \in AlnumSet \cup {".", "_", "-"}
        /\ \A k \in DOMAIN items :
              \E name \in WrittenDraftNames :
                  /\ HasDraftForm(name, k, items[k].id)
                  /\ slugify(items[k].title) = <<>> =>
                        name = PadStart2(k) \o <<"-">> \o items[k].id
                                   \o <<"-", "i", "s", "s", "u", "e", ".", "m", "d">>

\* C30: the draft file names simulate writes for a valid backlog are pairwise
\* distinct, hold only letters, digits, ".", "_" and "-", and have the form
\* {k padded to two digits}-{id}-{slug}.md with a slug that is not empty
\* (issue when the title has no letter or digit); hence every row of the
\* summary has a draft whose name holds -{id}-, and publish reports no missing
\* draft on the fresh output of simulate.
C30_DraftFilenames ==
    Called("resolve") =>
        /\ FilenameForm
        /\ \A i \in DOMAIN result.value.read.rows :
              \E name \in WrittenDraftNames : Includes(name, Needle(result.value.read.rows[i].id))
        /\ result.value.built.ok

\* The names have the form of the claim for every backlog, and every item
\* has a draft whose name holds its identifier between two hyphens.
C30_FilenameForm ==
    Called("resolve") =>
        /\ FilenameForm
        /\ \A k \in DOMAIN call.backlog.items :
              \E name \in WrittenDraftNames : Includes(name, Needle(call.backlog.items[k].id))

====
